---- MODULE Spec2Model ----
(***************************************************************************)
(* Model of the event-sourced rental store: the Unit and Lease aggregates   *)
(* (src/domain/models.py) and their repositories                           *)
(* (src/domain/repositories.py).                                           *)
(*                                                                         *)
(* The repository is an eventsourcing Application.  The model follows the  *)
(* calls the source makes into that library:                               *)
(*   - a method decorated with @event triggers an event with version       *)
(*     self.version + 1, runs the method body on the aggregate (mutate),   *)
(*     and only when the body returns raises the version and appends the   *)
(*     event to the aggregate's pending events;                            *)
(*   - Application.save collects (and so empties) the pending events and   *)
(*     inserts them in one transaction into a table whose primary key is   *)
(*     (originator_id, originator_version);                                *)
(*   - Repository.get reads the stream in version order and calls mutate   *)
(*     for each event, which runs the decorated method bodies again;       *)
(*   - EventSourcedLog.trigger_event reads the last log event, constructs  *)
(*     the next one and RETURNS it; it stores nothing;                     *)
(*   - EventSourcedLog.get reads the events of the log in one query, and   *)
(*     get_all and get_units then call Repository.get for one entry after  *)
(*     the other, each a read of its own, with no transaction around them. *)
(* Event timestamps (created_on / modified_on) are copied from the events  *)
(* and are left out; created_at is set by the __init__ body and is kept.   *)
(***************************************************************************)
EXTENDS Integers, Sequences, FiniteSets, TLC

VARIABLES
    stored,     \* rows of the UnitRepository recorder (stored events)
    clock,      \* the wall clock read by datetime.now()
    nextId,     \* number of aggregate ids handed out by uuid4()
    writer,     \* per writer: the in-memory Unit it holds and its save history
    nsaved,     \* number of UnitRepository.save calls that returned normally
    reads,      \* results of the get(id) calls made since the last write
    pager,      \* a client paging through get_units with a cursor
    page,       \* the last single get_units call: its arguments and what it yielded
    scan,       \* the get_all or get_units call in progress: the log entries it
                \* has read and not resolved yet, and what it has resolved
    call,       \* the last call that ended (a client's, a mutation) and whether it returned
    lstored,    \* rows of the LeaseRepository recorder (stored events)
    lwriter,    \* the client of LeaseRepository: the in-memory Lease it holds
    wire,       \* a date on its way through the transcoder and back
    tstored,    \* rows of the TenantRepository recorder (stored events)
    twriter,    \* the client of the Tenant class: the in-memory Tenant it holds
    requests,   \* per createTenant request in progress: its position and input
    inflight    \* per GraphQL mutation being served: its position and what it holds

vars == <<stored, clock, nextId, writer, nsaved, reads, pager, page, scan,
          call, lstored, lwriter, wire, tstored, twriter, requests,
          inflight>>

----------------------------------------------------------------------------
\* Bounds of the model.

MaxUnits == 1
MaxVersion == 4
MaxSaves == 2
MaxSaved == 4
MaxListed == 2
MaxListedVersion == 2
MaxClock == 1
MaxPages == 3
PageLimit == 2
MaxUnitOps == 1
MaxUnitVersion == 3
MaxLeases == 1
MaxLeaseVersion == 3
MaxLeaseSaves == 2
MaxDate == 3
MaxTenantVersion == 3
MaxTwoUnits == 2
MaxTwoVersion == 2
MaxApiTenants == 1
MaxApiVersion == 2
MaxSignVersion == 3
MaxLogged == 5
MaxLoggedUnits == 2
MaxReadLogged == 4
MaxOrphanLogged == 3
MaxLoggedVersion == 6
MaxLoggedSaves == 1

Writers == {"w1", "w2"}

\* Inputs of the commands.
Addresses == {"a1", "a2"}

----------------------------------------------------------------------------
\* Optional values: None is the empty sequence, a present value is wrapped.

None == <<>>

Some(x) == <<x>>

\* datetime.now().year, the upper bound of update_built_in_year.
CurrentYear == 2026

MinBuiltInYear == 1800

\* Originator id of the unit log, uuid5(NAMESPACE_URL, "/unit_log").  Unit
\* ids are 1..MaxUnits.
UnitLogId == 0

----------------------------------------------------------------------------
\* Events.  Every event carries the same payload fields; a topic uses the
\* ones its method takes and leaves the others at NoArgs.

NoArgs == [address |-> "", amenities |-> None, built_in |-> None, unit_id |-> 0]

Event(id, version, topic, args) ==
    [originator_id |-> id, originator_version |-> version,
     topic |-> topic, state |-> args]

\* A Unit that does not exist (Python None).
NoUnit ==
    [id |-> 0, version |-> 0, address |-> "", amenities |-> <<>>,
     is_leasable |-> FALSE, is_leased |-> FALSE, built_in |-> None,
     created_at |-> 0]

\* Mutant of UnitInit: a unit that is leased from its creation.
UnitInitLeased(e, now) ==
    [id |-> e.originator_id,
     version |-> e.originator_version,
     address |-> e.state.address,
     amenities |-> IF e.state.amenities = None \/ e.state.amenities[1] = <<>>
                   THEN <<>> ELSE e.state.amenities[1],
     is_leasable |-> TRUE,
     is_leased |-> TRUE,
     built_in |-> e.state.built_in,
     created_at |-> now]

\* Unit.__init__: the body run by the Created event, when the unit is
\* created and again each time the stream is replayed.
UnitInit(e, now) ==
    [id |-> e.originator_id,
     version |-> e.originator_version,
     address |-> e.state.address,
     amenities |-> IF e.state.amenities = None \/ e.state.amenities[1] = <<>>
                   THEN <<>> ELSE e.state.amenities[1],
     is_leasable |-> TRUE,
     is_leased |-> FALSE,
     built_in |-> e.state.built_in,
     created_at |-> now]

\* Mutant of UnitBody: mark_as_unleasable also ends the lease of the unit.
UnitBodyUnleasableFrees(u, e) ==
    CASE e.topic = "MarkedAsLeased" ->
            IF ~u.is_leasable THEN [ok |-> FALSE, unit |-> u]
            ELSE [ok |-> TRUE, unit |-> [u EXCEPT !.is_leased = TRUE]]
      [] e.topic = "MarkedAsAvailable" ->
            [ok |-> TRUE, unit |-> [u EXCEPT !.is_leased = FALSE]]
      [] e.topic = "MarkedAsUnleasable" ->
            [ok |-> TRUE, unit |-> [u EXCEPT !.is_leasable = FALSE,
                                             !.is_leased = FALSE]]
      [] e.topic = "MarkedAsLeasable" ->
            [ok |-> TRUE, unit |-> [u EXCEPT !.is_leasable = TRUE]]
      [] e.topic = "AmenitiesUpdated" ->
            [ok |-> TRUE, unit |-> [u EXCEPT !.amenities = e.state.amenities[1]]]
      [] e.topic = "AddressUpdated" ->
            [ok |-> TRUE, unit |-> [u EXCEPT !.address = e.state.address]]
      [] e.topic = "BuiltInYearUpdated" ->
            IF ~(MinBuiltInYear <= e.state.built_in[1]
                 /\ e.state.built_in[1] <= CurrentYear)
            THEN [ok |-> FALSE, unit |-> u]
            ELSE [ok |-> TRUE, unit |-> [u EXCEPT !.built_in = e.state.built_in]]
      [] OTHER -> [ok |-> FALSE, unit |-> u]

\* Mutant of UnitBody: mark_as_leased assigns is_leased before it checks
\* is_leasable.
UnitBodyAssignFirst(u, e) ==
    CASE e.topic = "MarkedAsLeased" ->
            [ok |-> u.is_leasable, unit |-> [u EXCEPT !.is_leased = TRUE]]
      [] e.topic = "MarkedAsAvailable" ->
            [ok |-> TRUE, unit |-> [u EXCEPT !.is_leased = FALSE]]
      [] e.topic = "MarkedAsUnleasable" ->
            [ok |-> TRUE, unit |-> [u EXCEPT !.is_leasable = FALSE]]
      [] e.topic = "MarkedAsLeasable" ->
            [ok |-> TRUE, unit |-> [u EXCEPT !.is_leasable = TRUE]]
      [] e.topic = "AmenitiesUpdated" ->
            [ok |-> TRUE, unit |-> [u EXCEPT !.amenities = e.state.amenities[1]]]
      [] e.topic = "AddressUpdated" ->
            [ok |-> TRUE, unit |-> [u EXCEPT !.address = e.state.address]]
      [] e.topic = "BuiltInYearUpdated" ->
            IF ~(MinBuiltInYear <= e.state.built_in[1]
                 /\ e.state.built_in[1] <= CurrentYear)
            THEN [ok |-> FALSE, unit |-> u]
            ELSE [ok |-> TRUE, unit |-> [u EXCEPT !.built_in = e.state.built_in]]
      [] OTHER -> [ok |-> FALSE, unit |-> u]

\* Mutant of UnitBody: update_built_in_year refuses the year 1800.
UnitBodyStrictYear(u, e) ==
    CASE e.topic = "MarkedAsLeased" ->
            IF ~u.is_leasable THEN [ok |-> FALSE, unit |-> u]
            ELSE [ok |-> TRUE, unit |-> [u EXCEPT !.is_leased = TRUE]]
      [] e.topic = "MarkedAsAvailable" ->
            [ok |-> TRUE, unit |-> [u EXCEPT !.is_leased = FALSE]]
      [] e.topic = "MarkedAsUnleasable" ->
            [ok |-> TRUE, unit |-> [u EXCEPT !.is_leasable = FALSE]]
      [] e.topic = "MarkedAsLeasable" ->
            [ok |-> TRUE, unit |-> [u EXCEPT !.is_leasable = TRUE]]
      [] e.topic = "AmenitiesUpdated" ->
            [ok |-> TRUE, unit |-> [u EXCEPT !.amenities = e.state.amenities[1]]]
      [] e.topic = "AddressUpdated" ->
            [ok |-> TRUE, unit |-> [u EXCEPT !.address = e.state.address]]
      [] e.topic = "BuiltInYearUpdated" ->
            IF ~(MinBuiltInYear < e.state.built_in[1]
                 /\ e.state.built_in[1] <= CurrentYear)
            THEN [ok |-> FALSE, unit |-> u]
            ELSE [ok |-> TRUE, unit |-> [u EXCEPT !.built_in = e.state.built_in]]
      [] OTHER -> [ok |-> FALSE, unit |-> u]

\* The bodies of the decorated command methods of Unit.  ok = FALSE is the
\* ValueError the body raises.
UnitBody(u, e) ==
    CASE e.topic = "MarkedAsLeased" ->
            IF ~u.is_leasable THEN [ok |-> FALSE, unit |-> u]
            ELSE [ok |-> TRUE, unit |-> [u EXCEPT !.is_leased = TRUE]]
      [] e.topic = "MarkedAsAvailable" ->
            [ok |-> TRUE, unit |-> [u EXCEPT !.is_leased = FALSE]]
      [] e.topic = "MarkedAsUnleasable" ->
            [ok |-> TRUE, unit |-> [u EXCEPT !.is_leasable = FALSE]]
      [] e.topic = "MarkedAsLeasable" ->
            [ok |-> TRUE, unit |-> [u EXCEPT !.is_leasable = TRUE]]
      [] e.topic = "AmenitiesUpdated" ->
            [ok |-> TRUE, unit |-> [u EXCEPT !.amenities = e.state.amenities[1]]]
      [] e.topic = "AddressUpdated" ->
            [ok |-> TRUE, unit |-> [u EXCEPT !.address = e.state.address]]
      [] e.topic = "BuiltInYearUpdated" ->
            IF ~(MinBuiltInYear <= e.state.built_in[1]
                 /\ e.state.built_in[1] <= CurrentYear)
            THEN [ok |-> FALSE, unit |-> u]
            ELSE [ok |-> TRUE, unit |-> [u EXCEPT !.built_in = e.state.built_in]]
      [] OTHER -> [ok |-> FALSE, unit |-> u]

\* AggregateEvent.mutate: the event must be the next of the aggregate's
\* sequence; the body runs on the aggregate itself, before the version is
\* raised, so a body that raises leaves what it had assigned.
Mutate(u, e) ==
    IF u = NoUnit \/ e.originator_id # u.id
       \/ e.originator_version # u.version + 1
    THEN [ok |-> FALSE, unit |-> u]
    ELSE LET r == UnitBody(u, e)
         IN  IF r.ok
             THEN [ok |-> TRUE,
                   unit |-> [r.unit EXCEPT !.version = e.originator_version]]
             ELSE [ok |-> FALSE, unit |-> r.unit]

\* The event a command method triggers on unit u.
TriggerUnitEvent(u, topic, args) == Event(u.id, u.version + 1, topic, args)

----------------------------------------------------------------------------
\* The Lease aggregate.  Dates are day numbers; tenant and unit ids are
\* small integers.

SeqToSet(s) == {s[i] : i \in 1..Len(s)}

\* The unit_id a lease carries is whatever the caller of Lease.create gave:
\* a UUID object, or the str of one.  The form is kept by the transcoder.
UuidRef(n) == [form |-> "UUID", id |-> n]

StrRef(n) == [form |-> "str", id |-> n]

NoRef == [form |-> "none", id |-> 0]

\* uuid.UUID(x): the hex of a str is parsed; an argument that is a UUID
\* object has no replace method, and the constructor raises AttributeError.
ToUuid(x) ==
    IF x.form = "str" THEN [ok |-> TRUE, id |-> x.id]
    ELSE [ok |-> FALSE, id |-> 0]

NoLeaseArgs ==
    [unit_id |-> NoRef, tenant_ids |-> <<>>, start_date |-> None,
     end_date |-> None, tenant_id |-> 0, lease_id |-> 0]

\* A Lease that does not exist (Python None).
NoLease ==
    [id |-> 0, version |-> 0, unit_id |-> NoRef, tenant_ids |-> <<>>,
     start_date |-> 0, end_date |-> 0, generated_at |-> 0,
     signed_at |-> None, signed_by_tenant |-> FALSE]

\* Lease.__init__: the body run by the Created event, at creation and at
\* every replay.
LeaseInit(e, now) ==
    [id |-> e.originator_id,
     version |-> e.originator_version,
     unit_id |-> e.state.unit_id,
     tenant_ids |-> e.state.tenant_ids,
     start_date |-> e.state.start_date[1],
     end_date |-> e.state.end_date[1],
     generated_at |-> now,
     signed_at |-> None,
     signed_by_tenant |-> FALSE]

\* The check of Lease.create, made before the instance is constructed.
\* Mutant: a check that lets equal dates through.
LeaseDatesValidOrEqual(start_date, end_date) == ~(start_date > end_date)

LeaseDatesValid(start_date, end_date) == ~(start_date >= end_date)

\* list.remove(x): the first occurrence of x is taken out.
RECURSIVE RemoveFirst(_, _)
RemoveFirst(l, x) ==
    IF l = <<>> THEN <<>>
    ELSE IF Head(l) = x THEN Tail(l)
         ELSE <<Head(l)>> \o RemoveFirst(Tail(l), x)

\* The bodies of the decorated command methods of Lease.  ok = FALSE is the
\* ValueError the body raises; lease is the instance as the body leaves it.
LeaseBody(l, e, now) ==
    CASE e.topic = "SignedByTenant" ->
            [ok |-> TRUE,
             lease |-> [l EXCEPT !.signed_by_tenant = TRUE,
                                 !.signed_at = Some(now)]]
      [] e.topic = "TenantAdded" ->
            [ok |-> TRUE,
             lease |-> IF e.state.tenant_id \in SeqToSet(l.tenant_ids) THEN l
                       ELSE [l EXCEPT !.tenant_ids = Append(@, e.state.tenant_id)]]
      [] e.topic = "TenantRemoved" ->
            [ok |-> TRUE,
             lease |-> IF e.state.tenant_id \in SeqToSet(l.tenant_ids)
                       THEN [l EXCEPT !.tenant_ids =
                                          RemoveFirst(@, e.state.tenant_id)]
                       ELSE l]
      [] e.topic = "DateUpdated" ->
            LET l1 == IF e.state.start_date # None
                      THEN [l EXCEPT !.start_date = e.state.start_date[1]]
                      ELSE l
                l2 == IF e.state.end_date # None
                      THEN [l1 EXCEPT !.end_date = e.state.end_date[1]]
                      ELSE l1
            IN  [ok |-> l2.start_date < l2.end_date, lease |-> l2]
      [] OTHER -> [ok |-> FALSE, lease |-> l]

\* Mutant of LeaseMutate: the version is raised before the body runs, and
\* stays raised when the body raises.
LeaseMutateVersionFirst(l, e, now) ==
    IF l = NoLease \/ e.originator_id # l.id
       \/ e.originator_version # l.version + 1
    THEN [ok |-> FALSE, lease |-> l]
    ELSE LET r == LeaseBody([l EXCEPT !.version = e.originator_version], e, now)
         IN  [ok |-> r.ok, lease |-> r.lease]

\* AggregateEvent.mutate on a Lease.
LeaseMutate(l, e, now) ==
    IF l = NoLease \/ e.originator_id # l.id
       \/ e.originator_version # l.version + 1
    THEN [ok |-> FALSE, lease |-> l]
    ELSE LET r == LeaseBody(l, e, now)
         IN  IF r.ok
             THEN [ok |-> TRUE,
                   lease |-> [r.lease EXCEPT !.version = e.originator_version]]
             ELSE [ok |-> FALSE, lease |-> r.lease]

----------------------------------------------------------------------------
\* The Tenant aggregate.

NoTenantArgs ==
    [identification_number |-> "", first_name |-> "", last_name |-> "",
     email |-> None, phone_number |-> None,
     dob |-> [year |-> 0, month |-> 0, day |-> 0], tenant_id |-> 0]

\* A Tenant that does not exist (Python None).
NoTenant ==
    [id |-> 0, version |-> 0, identification_number |-> "",
     first_name |-> "", last_name |-> "", email |-> "", phone_number |-> "",
     dob |-> [year |-> 0, month |-> 0, day |-> 0], is_approved |-> FALSE,
     created_at |-> 0]

\* Tenant.__init__: the body run by the Created event.
TenantInit(e, now) ==
    [id |-> e.originator_id,
     version |-> e.originator_version,
     identification_number |-> e.state.identification_number,
     first_name |-> e.state.first_name,
     last_name |-> e.state.last_name,
     email |-> e.state.email[1],
     phone_number |-> e.state.phone_number[1],
     dob |-> e.state.dob,
     is_approved |-> FALSE,
     created_at |-> now]

\* "if email:" - an argument that is given and is not the empty string.
Truthy(opt) == opt # None /\ opt[1] # ""

\* Mutant of TenantBody: update_contact_info tests "is not None", so an
\* empty string replaces the field.
TenantBodyNotNone(t, e) ==
    CASE e.topic = "Approved" ->
            [ok |-> TRUE, tenant |-> [t EXCEPT !.is_approved = TRUE]]
      [] e.topic = "Disapproved" ->
            [ok |-> TRUE, tenant |-> [t EXCEPT !.is_approved = FALSE]]
      [] e.topic = "ContactInfoUpdated" ->
            LET t1 == IF e.state.email # None
                      THEN [t EXCEPT !.email = e.state.email[1]] ELSE t
                t2 == IF e.state.phone_number # None
                      THEN [t1 EXCEPT !.phone_number = e.state.phone_number[1]]
                      ELSE t1
            IN  [ok |-> TRUE, tenant |-> t2]
      [] OTHER -> [ok |-> FALSE, tenant |-> t]

\* The bodies of the decorated command methods of Tenant; none raises.
TenantBody(t, e) ==
    CASE e.topic = "Approved" ->
            [ok |-> TRUE, tenant |-> [t EXCEPT !.is_approved = TRUE]]
      [] e.topic = "Disapproved" ->
            [ok |-> TRUE, tenant |-> [t EXCEPT !.is_approved = FALSE]]
      [] e.topic = "ContactInfoUpdated" ->
            LET t1 == IF Truthy(e.state.email)
                      THEN [t EXCEPT !.email = e.state.email[1]] ELSE t
                t2 == IF Truthy(e.state.phone_number)
                      THEN [t1 EXCEPT !.phone_number = e.state.phone_number[1]]
                      ELSE t1
            IN  [ok |-> TRUE, tenant |-> t2]
      [] OTHER -> [ok |-> FALSE, tenant |-> t]

\* AggregateEvent.mutate on a Tenant.
TenantMutate(t, e) ==
    IF t = NoTenant \/ e.originator_id # t.id
       \/ e.originator_version # t.version + 1
    THEN [ok |-> FALSE, tenant |-> t]
    ELSE LET r == TenantBody(t, e)
         IN  IF r.ok
             THEN [ok |-> TRUE,
                   tenant |-> [r.tenant EXCEPT !.version = e.originator_version]]
             ELSE [ok |-> FALSE, tenant |-> r.tenant]

----------------------------------------------------------------------------
\* The recorder.

StreamRows(store, id) == {e \in store : e.originator_id = id}

\* EventStore.get(originator_id): the rows of one stream in version order.
RECURSIVE SortRows(_)
SortRows(rows) ==
    IF rows = {} THEN <<>>
    ELSE LET lo == CHOOSE e \in rows :
                       \A f \in rows : e.originator_version <= f.originator_version
         IN  <<lo>> \o SortRows(rows \ {lo})

Stream(store, id) == SortRows(StreamRows(store, id))

\* Mutants of Conflicts: an insert that never sees a clash, and one that
\* refuses every insert into a stream that already has rows.
ConflictsNever(store, events) == FALSE

ConflictsAnyVersion(store, events) ==
    \E e \in SeqToSet(events) : \E r \in store :
        r.originator_id = e.originator_id

\* Mutant of Conflicts: a key on the version alone, whatever the stream.
ConflictsAnyStream(store, events) ==
    \E e \in SeqToSet(events) : \E r \in store :
        r.originator_version = e.originator_version

\* The insert of Application.save: one transaction, refused as a whole when
\* a row with the same (originator_id, originator_version) exists.
Conflicts(store, events) ==
    \E e \in SeqToSet(events) : \E r \in store :
        /\ r.originator_id = e.originator_id
        /\ r.originator_version = e.originator_version

InsertEvents(store, events) ==
    IF Conflicts(store, events) THEN store ELSE store \cup SeqToSet(events)

\* Mutant of ReplayFrom: a replay that applies the first event only.
ReplayFirstOnly(u, events, i, now) ==
    IF events[1].topic = "Created"
    THEN [status |-> "ok", unit |-> UnitInit(events[1], now)]
    ELSE [status |-> "error", unit |-> NoUnit]

\* Repository.get: replay of a stream.  status is "ok", "notfound"
\* (AggregateNotFound) or "error" (a mutate that raises).
RECURSIVE ReplayFrom(_, _, _, _)
ReplayFrom(u, events, i, now) ==
    IF i > Len(events) THEN [status |-> "ok", unit |-> u]
    ELSE IF events[i].topic = "Created"
         THEN IF u = NoUnit
              THEN ReplayFrom(UnitInit(events[i], now), events, i + 1, now)
              ELSE [status |-> "error", unit |-> NoUnit]
         ELSE LET r == Mutate(u, events[i])
              IN  IF r.ok THEN ReplayFrom(r.unit, events, i + 1, now)
                  ELSE [status |-> "error", unit |-> NoUnit]

RepositoryGet(store, id, now) ==
    LET events == Stream(store, id)
    IN  IF events = <<>> THEN [status |-> "notfound", unit |-> NoUnit]
        ELSE ReplayFrom(NoUnit, events, 1, now)


\* The exceptions of Repository.get that are a KeyError.  AggregateNotFound
\* and the errors a mutate raises derive from Exception, not from KeyError.
KeyErrors == {}

\* UnitRepository.get: Repository.get, with a KeyError turned into None.
UnitRepositoryGet(store, id, now) ==
    LET r == RepositoryGet(store, id, now)
    IN  IF r.status \in KeyErrors THEN [status |-> "none", unit |-> NoUnit]
        ELSE r

----------------------------------------------------------------------------
\* The unit log: the events whose originator is UnitLogId.

RECURSIVE SortRowsDesc(_)
SortRowsDesc(rows) ==
    IF rows = {} THEN <<>>
    ELSE LET hi == CHOOSE e \in rows :
                       \A f \in rows : e.originator_version >= f.originator_version
         IN  <<hi>> \o SortRowsDesc(rows \ {hi})

\* Mutant of Take: a cut that lets one entry more than limit through.
TakeOneMore(s, limit) ==
    IF limit = None \/ limit[1] + 1 >= Len(s) THEN s
    ELSE SubSeq(s, 1, limit[1] + 1)

Take(s, limit) ==
    IF limit = None \/ limit[1] >= Len(s) THEN s ELSE SubSeq(s, 1, limit[1])

\* Mutant of LogGet: a lower bound that lets the entry at gt through.
LogGetInclusive(store, gt, lte, desc, limit) ==
    LET rows == {e \in StreamRows(store, UnitLogId) :
                    /\ (gt = None \/ e.originator_version >= gt[1])
                    /\ (lte = None \/ e.originator_version <= lte[1])}
    IN  Take(IF desc THEN SortRowsDesc(rows) ELSE SortRows(rows), limit)

\* EventSourcedLog.get(gt, lte, desc, limit): the log events with
\* gt < originator_version <= lte, in the order asked for, at most limit.
LogGet(store, gt, lte, desc, limit) ==
    LET rows == {e \in StreamRows(store, UnitLogId) :
                    /\ (gt = None \/ e.originator_version > gt[1])
                    /\ (lte = None \/ e.originator_version <= lte[1])}
    IN  Take(IF desc THEN SortRowsDesc(rows) ELSE SortRows(rows), limit)

\* EventSourcedLog.trigger_event: constructs the log event that follows the
\* last one.  The event is returned to the caller; nothing is stored.
LogTriggerEvent(store, unit_id) ==
    LET last == LogGet(store, None, None, TRUE, Some(1))
    IN  Event(UnitLogId,
              IF last = <<>> THEN 1 ELSE last[1].originator_version + 1,
              "UnitLogged", [NoArgs EXCEPT !.unit_id = unit_id])

\* Mutant of UnitRepositorySave: an insert that is not one transaction, the
\* rows that do not clash are kept when another row is refused.
UnitRepositorySavePartial(store, events, unit_id) ==
    IF Conflicts(store, events)
    THEN [ok |-> FALSE,
          store |-> store \cup {e \in SeqToSet(events) : ~Conflicts(store, <<e>>)}]
    ELSE [ok |-> TRUE, store |-> InsertEvents(store, events)]

\* UnitRepository.save: Application.save of the pending events, then
\* trigger_event, whose result the method drops.
UnitRepositorySave(store, events, unit_id) ==
    IF Conflicts(store, events)
    THEN [ok |-> FALSE, store |-> store]
    ELSE LET after == InsertEvents(store, events)
             logged == LogTriggerEvent(after, unit_id)
         IN  [ok |-> TRUE, store |-> after]

\* The loop of get_all over log events, on a store that no writer changes
\* while the loop runs: each entry is resolved with Repository.get; a
\* KeyError skips the entry, any other exception leaves the loop.
RECURSIVE Resolve(_, _, _, _, _)
Resolve(store, entries, i, now, acc) ==
    IF i > Len(entries) THEN [status |-> "ok", items |-> acc]
    ELSE LET r == RepositoryGet(store, entries[i].state.unit_id, now)
         IN  IF r.status = "ok"
             THEN Resolve(store, entries, i + 1, now,
                          Append(acc, [position |-> entries[i].originator_version,
                                       unit |-> r.unit]))
             ELSE IF r.status \in KeyErrors
                  THEN Resolve(store, entries, i + 1, now, acc)
                  ELSE [status |-> r.status, items |-> acc]

\* UnitRepository.get_all on a store that no writer changes while it runs:
\* the log read with the library's defaults (ascending, unbounded).
GetAll(store, now) ==
    LET r == Resolve(store, LogGet(store, None, None, FALSE, None), 1, now, <<>>)
    IN  [status |-> r.status,
         units |-> [i \in 1..Len(r.items) |-> r.items[i].unit]]

\* UnitRepository.get_available_units: the units of get_all that are
\* leasable and not leased.
GetAvailableUnits(store, now) ==
    LET r == GetAll(store, now)
    IN  [status |-> r.status,
         units |-> SelectSeq(r.units, LAMBDA u : u.is_leasable /\ ~u.is_leased)]

\* Mutant of UnitRepositoryDelete: a delete that removes the stream.
UnitRepositoryDeleteRows(store, id) ==
    [ok |-> TRUE, store |-> store \ StreamRows(store, id)]

\* UnitRepository.delete: self.repository.delete(unit.id).  The library's
\* Repository has no delete, the attribute lookup raises AttributeError and
\* the recorder is not touched.
UnitRepositoryDelete(store, id) == [ok |-> FALSE, store |-> store]

----------------------------------------------------------------------------
\* The LeaseRepository: its own recorder, with the lease log at LeaseLogId.

LeaseLogId == 0

\* Repository.get on the lease recorder: replay of a stream.
RECURSIVE LeaseReplayFrom(_, _, _, _)
LeaseReplayFrom(l, events, i, now) ==
    IF i > Len(events) THEN [status |-> "ok", lease |-> l]
    ELSE IF events[i].topic = "Created"
         THEN IF l = NoLease
              THEN LeaseReplayFrom(LeaseInit(events[i], now), events, i + 1, now)
              ELSE [status |-> "error", lease |-> NoLease]
         ELSE LET r == LeaseMutate(l, events[i], now)
              IN  IF r.ok THEN LeaseReplayFrom(r.lease, events, i + 1, now)
                  ELSE [status |-> "error", lease |-> NoLease]

\* LeaseRepository.get: Repository.get, with a KeyError turned into None.
LeaseRepositoryGet(store, id, now) ==
    LET events == Stream(store, id)
        r == IF events = <<>> THEN [status |-> "notfound", lease |-> NoLease]
             ELSE LeaseReplayFrom(NoLease, events, 1, now)
    IN  IF r.status \in KeyErrors THEN [status |-> "none", lease |-> NoLease]
        ELSE r

\* LeaseRepository.save: Application.save of the pending events, then
\* lease_log.trigger_event, whose result the method drops.
LeaseRepositorySave(store, events, lease_id) ==
    IF Conflicts(store, events)
    THEN [ok |-> FALSE, store |-> store]
    ELSE LET after == InsertEvents(store, events)
             last == SortRowsDesc(StreamRows(after, LeaseLogId))
             logged == Event(LeaseLogId,
                             IF last = <<>> THEN 1
                             ELSE last[1].originator_version + 1,
                             "LeaseLogged",
                             [NoLeaseArgs EXCEPT !.lease_id = lease_id])
         IN  [ok |-> TRUE, store |-> after]

\* The loop of LeaseRepository.get_all over the log events: a KeyError
\* skips the entry, any other exception leaves the loop.
RECURSIVE LeaseResolve(_, _, _, _, _)
LeaseResolve(store, entries, i, now, acc) ==
    IF i > Len(entries) THEN [status |-> "ok", leases |-> acc]
    ELSE LET events == Stream(store, entries[i].state.lease_id)
             r == IF events = <<>>
                  THEN [status |-> "notfound", lease |-> NoLease]
                  ELSE LeaseReplayFrom(NoLease, events, 1, now)
         IN  IF r.status = "ok"
             THEN LeaseResolve(store, entries, i + 1, now, Append(acc, r.lease))
             ELSE IF r.status \in KeyErrors
                  THEN LeaseResolve(store, entries, i + 1, now, acc)
                  ELSE [status |-> r.status, leases |-> acc]

\* LeaseRepository.get_all: the leases the log entries resolve to.
LeaseGetAll(store, now) ==
    LeaseResolve(store, SortRows(StreamRows(store, LeaseLogId)), 1, now, <<>>)

\* LeaseRepository.get_by_unit_id: the leases of get_all whose unit_id has
\* the str of the id asked for.
GetByUnitId(store, unit_id, now) ==
    LET r == LeaseGetAll(store, now)
    IN  [status |-> r.status,
         leases |-> SelectSeq(r.leases, LAMBDA l : l.unit_id.id = unit_id)]

\* LeaseRepository.get_by_tenant_id: the leases of get_all that list the
\* tenant.
GetByTenantId(store, tenant_id, now) ==
    LET r == LeaseGetAll(store, now)
    IN  [status |-> r.status,
         leases |-> SelectSeq(r.leases,
                              LAMBDA l : tenant_id \in SeqToSet(l.tenant_ids))]

\* LeaseRepository.get_active_leases: the leases of get_all that are signed
\* and whose dates hold today.
GetActiveLeases(store, today, now) ==
    LET r == LeaseGetAll(store, now)
    IN  [status |-> r.status,
         leases |-> SelectSeq(r.leases,
                              LAMBDA l : /\ l.signed_by_tenant
                                         /\ l.start_date <= today
                                         /\ today <= l.end_date)]

----------------------------------------------------------------------------
\* The TenantRepository: its own recorder, with the tenant log at
\* TenantLogId.

TenantLogId == 0

\* Repository.get on the tenant recorder: replay of a stream.
RECURSIVE TenantReplayFrom(_, _, _, _)
TenantReplayFrom(t, events, i, now) ==
    IF i > Len(events) THEN [status |-> "ok", tenant |-> t]
    ELSE IF events[i].topic = "Created"
         THEN IF t = NoTenant
              THEN TenantReplayFrom(TenantInit(events[i], now), events, i + 1, now)
              ELSE [status |-> "error", tenant |-> NoTenant]
         ELSE LET r == TenantMutate(t, events[i])
              IN  IF r.ok THEN TenantReplayFrom(r.tenant, events, i + 1, now)
                  ELSE [status |-> "error", tenant |-> NoTenant]

\* TenantRepository.get: Repository.get, with a KeyError turned into None.
TenantRepositoryGet(store, id, now) ==
    LET events == Stream(store, id)
        r == IF events = <<>> THEN [status |-> "notfound", tenant |-> NoTenant]
             ELSE TenantReplayFrom(NoTenant, events, 1, now)
    IN  IF r.status \in KeyErrors THEN [status |-> "none", tenant |-> NoTenant]
        ELSE r

\* TenantRepository.save: Application.save of the pending events, then
\* tenant_log.trigger_event, whose result the method drops.
TenantRepositorySave(store, events, tenant_id) ==
    IF Conflicts(store, events)
    THEN [ok |-> FALSE, store |-> store]
    ELSE LET after == InsertEvents(store, events)
             last == SortRowsDesc(StreamRows(after, TenantLogId))
             logged == Event(TenantLogId,
                             IF last = <<>> THEN 1
                             ELSE last[1].originator_version + 1,
                             "TenantLogged",
                             [NoTenantArgs EXCEPT !.tenant_id = tenant_id])
         IN  [ok |-> TRUE, store |-> after]

\* The loop of TenantRepository.get_all over the log events: a KeyError
\* skips the entry, any other exception leaves the loop.
RECURSIVE TenantResolve(_, _, _, _, _)
TenantResolve(store, entries, i, now, acc) ==
    IF i > Len(entries) THEN [status |-> "ok", tenants |-> acc]
    ELSE LET events == Stream(store, entries[i].state.tenant_id)
             r == IF events = <<>>
                  THEN [status |-> "notfound", tenant |-> NoTenant]
                  ELSE TenantReplayFrom(NoTenant, events, 1, now)
         IN  IF r.status = "ok"
             THEN TenantResolve(store, entries, i + 1, now, Append(acc, r.tenant))
             ELSE IF r.status \in KeyErrors
                  THEN TenantResolve(store, entries, i + 1, now, acc)
                  ELSE [status |-> r.status, tenants |-> acc]

\* TenantRepository.get_all: the tenants the log entries resolve to.
TenantGetAll(store, now) ==
    TenantResolve(store, SortRows(StreamRows(store, TenantLogId)), 1, now, <<>>)

\* TenantRepository.get_by_identification_number: the first tenant of
\* get_all with that number, or None.
GetByIdentificationNumber(store, identification_number, now) ==
    LET r == TenantGetAll(store, now)
        found == SelectSeq(r.tenants,
                           LAMBDA t : t.identification_number = identification_number)
    IN  [status |-> r.status,
         tenant |-> IF r.status = "ok" /\ found # <<>> THEN found[1]
                    ELSE NoTenant]

\* TenantRepository.get_approved_tenants: the tenants of get_all that are
\* approved.
GetApprovedTenants(store, now) ==
    LET r == TenantGetAll(store, now)
    IN  [status |-> r.status,
         tenants |-> SelectSeq(r.tenants, LAMBDA t : t.is_approved)]

----------------------------------------------------------------------------
\* The GraphQL mutations.  A resolver gives ok = TRUE when it returns and
\* ok = FALSE when it raises (the response then carries "errors"); the
\* stores are as the resolver leaves them.

\* uuid4: an id no stream of the recorder has.
FreshId(store) == Cardinality({e.originator_id : e \in store} \ {0}) + 1

\* repo.create(aggregate): neither the repository classes nor the library's
\* Application define create; the attribute lookup raises AttributeError and
\* the recorder is not touched.
ApplicationCreate(store, events) == [ok |-> FALSE, store |-> store]

\* Mutation.create_unit.
CreateUnitResolver(ustore, input) ==
    LET e == Event(FreshId(ustore), 1, "Created", input)
        r == ApplicationCreate(ustore, <<e>>)
    IN  [ok |-> r.ok, ustore |-> r.store, id |-> e.originator_id]

\* Mutation.create_tenant, the lookup: get_by_identification_number and the
\* check of its result.  TRUE when the mutation goes on to create the
\* tenant, FALSE when it raises.
CreateTenantLookup(tstore, identification_number, now) ==
    LET existing == GetByIdentificationNumber(tstore, identification_number, now)
    IN  existing.status = "ok" /\ existing.tenant = NoTenant

\* Mutation.create_tenant, the tenant: Tenant.create and repo.create.
CreateTenantResolver(tstore, input) ==
    LET e == Event(FreshId(tstore), 1, "Created", input)
        r == ApplicationCreate(tstore, <<e>>)
    IN  [ok |-> r.ok, tstore |-> r.store, id |-> e.originator_id]

\* The first half of update_unit_amenities, mark_unit_as_leased and
\* mark_unit_as_available: repo.get(UUID(id)), the ValueError for no unit,
\* and the command method.  ok = FALSE when one of them raises; pending is
\* the event the unit then holds for repo.save.
UnitCommandResolver(ustore, id, topic, args, now) ==
    LET g == UnitRepositoryGet(ustore, id, now)
        e == TriggerUnitEvent(g.unit, topic, args)
        m == Mutate(g.unit, e)
    IN  IF g.status # "ok" \/ ~m.ok
        THEN [ok |-> FALSE, pending |-> <<>>]
        ELSE [ok |-> TRUE, pending |-> <<e>>]

\* The first half of approve_tenant, disapprove_tenant and
\* update_tenant_contact: repo.get(UUID(id)), the ValueError for no tenant,
\* and the command method.
TenantCommandResolver(tstore, id, topic, args, now) ==
    LET g == TenantRepositoryGet(tstore, id, now)
        e == Event(id, g.tenant.version + 1, topic, args)
        m == TenantMutate(g.tenant, e)
    IN  IF g.status # "ok" \/ ~m.ok
        THEN [ok |-> FALSE, pending |-> <<>>]
        ELSE [ok |-> TRUE, pending |-> <<e>>]

\* Mutation.create_lease, the unit: unit_repo.get(UUID(input.unit_id)) and
\* the two checks of the unit.  TRUE when none of them raises.
CreateLeaseUnitResolver(ustore, unit_id, now) ==
    LET uid == ToUuid(unit_id)
        u == UnitRepositoryGet(ustore, uid.id, now)
    IN  uid.ok /\ u.status = "ok" /\ u.unit.is_leasable

\* Mutation.create_lease, one pass of the loop over input.tenant_ids:
\* tenant_repo.get(UUID(tenant_id)) and the two checks of the tenant.
CreateLeaseTenantResolver(tstore, tenant_id, now) ==
    LET g == TenantRepositoryGet(tstore, tenant_id, now)
    IN  g.status = "ok" /\ g.tenant.is_approved

\* Mutation.create_lease, the lease: Lease.create and lease_repo.create.
CreateLeaseResolver(lstore, input) ==
    LET e == Event(FreshId(lstore), 1, "Created", input)
        r == ApplicationCreate(lstore, <<e>>)
    IN  IF ~LeaseDatesValid(input.start_date[1], input.end_date[1])
        THEN [ok |-> FALSE, lstore |-> lstore, id |-> 0]
        ELSE [ok |-> r.ok, lstore |-> r.store, id |-> e.originator_id]

\* Mutation.sign_lease, the lease: lease_repo.get(UUID(id)), the ValueError
\* for no lease, and sign_by_tenant.  unit_id is what the lease carries.
SignLeaseResolver(lstore, id, now) ==
    LET g == LeaseRepositoryGet(lstore, id, now)
        e == Event(id, g.lease.version + 1, "SignedByTenant", NoLeaseArgs)
        m == LeaseMutate(g.lease, e, now)
    IN  IF g.status # "ok" \/ ~m.ok
        THEN [ok |-> FALSE, pending |-> <<>>, unit_id |-> NoRef]
        ELSE [ok |-> TRUE, pending |-> <<e>>, unit_id |-> m.lease.unit_id]

\* Mutant of SignLeaseUnitResolver: the unit is taken as not there, and is
\* left as it is.
SignLeaseUnitResolverSkips(ustore, unit_id, now) ==
    [status |-> "none", pending |-> <<>>]

\* Mutation.sign_lease, the unit: unit_repo.get(UUID(lease.unit_id)) and,
\* for a unit that is there, mark_as_leased.  status is "raised" when one
\* of them raises, "none" when get gave None, "ok" when the unit holds the
\* event for unit_repo.save.
SignLeaseUnitResolver(ustore, unit_id, now) ==
    LET uid == ToUuid(unit_id)
        u == UnitRepositoryGet(ustore, uid.id, now)
        ue == TriggerUnitEvent(u.unit, "MarkedAsLeased", NoArgs)
        um == Mutate(u.unit, ue)
    IN  IF ~uid.ok THEN [status |-> "raised", pending |-> <<>>]
        ELSE IF u.status = "none" THEN [status |-> "none", pending |-> <<>>]
        ELSE IF u.status # "ok" \/ ~um.ok
        THEN [status |-> "raised", pending |-> <<>>]
        ELSE [status |-> "ok", pending |-> <<ue>>]

----------------------------------------------------------------------------
\* DateTranscoding: a date is a record of year, month and day; a str is the
\* sequence of the code points of its characters ("0" is 48, "-" is 45, "W"
\* is 87).

\* The characters "0" to "9".
DigitChars == [i \in 1..10 |-> 47 + i]

\* The character "-".
Hyphen == 45

\* The character "W".
WeekLetter == 87

RECURSIVE Pow10(_)
Pow10(n) == IF n = 0 THEN 1 ELSE 10 * Pow10(n - 1)

\* "%0<w>d" % n
Padded(n, w) == [i \in 1..w |-> DigitChars[((n \div Pow10(w - i)) % 10) + 1]]

\* str(n)
RECURSIVE Unpadded(_)
Unpadded(n) ==
    IF n < 10 THEN <<DigitChars[n + 1]>>
    ELSE Unpadded(n \div 10) \o <<DigitChars[(n % 10) + 1]>>

\* Mutant of DateEncode: the fields written without leading zeros.
DateEncodeUnpadded(d) ==
    Unpadded(d.year) \o <<Hyphen>> \o Unpadded(d.month) \o <<Hyphen>>
        \o Unpadded(d.day)

\* DateTranscoding.encode: obj.isoformat(), "%04d-%02d-%02d".
DateEncode(d) ==
    Padded(d.year, 4) \o <<Hyphen>> \o Padded(d.month, 2) \o <<Hyphen>>
        \o Padded(d.day, 2)

IsDigit(c) == \E n \in 1..10 : DigitChars[n] = c

\* int(chars)
RECURSIVE ParseInt(_)
ParseInt(chars) ==
    IF chars = <<>> THEN 0
    ELSE 10 * ParseInt(SubSeq(chars, 1, Len(chars) - 1))
             + (CHOOSE n \in 1..10 : DigitChars[n] = chars[Len(chars)]) - 1

IsLeap(y) == (y % 4 = 0 /\ y % 100 # 0) \/ y % 400 = 0

DaysInMonth(y, m) ==
    IF m = 2 THEN (IF IsLeap(y) THEN 29 ELSE 28)
    ELSE IF m \in {4, 6, 9, 11} THEN 30 ELSE 31

\* date(year, month, day) accepts the fields.
IsDate(y, m, d) ==
    /\ 1 <= y /\ y <= 9999
    /\ 1 <= m /\ m <= 12
    /\ 1 <= d /\ d <= DaysInMonth(y, m)

NoDate == [year |-> 0, month |-> 0, day |-> 0]

\* The days before 1 January of year y, counted from 1 January of year 1.
DaysBeforeYear(y) ==
    LET z == y - 1
    IN  z * 365 + z \div 4 - z \div 100 + z \div 400

RECURSIVE DaysBeforeMonth(_, _)
DaysBeforeMonth(y, m) ==
    IF m = 1 THEN 0 ELSE DaysBeforeMonth(y, m - 1) + DaysInMonth(y, m - 1)

\* The ordinal of a date: 1 January of year 1 is day 1.
YmdToOrd(y, m, d) == DaysBeforeYear(y) + DaysBeforeMonth(y, m) + d

RECURSIVE MonthAndDay(_, _, _)
MonthAndDay(y, m, rest) ==
    IF rest <= DaysInMonth(y, m) THEN [month |-> m, day |-> rest]
    ELSE MonthAndDay(y, m + 1, rest - DaysInMonth(y, m))

\* The date of an ordinal; ok = FALSE when its year is after 9999.
OrdToYmd(n) ==
    LET lo == IF n \div 366 < 1 THEN 1 ELSE n \div 366
        y == CHOOSE k \in lo..(n \div 365 + 1) :
                 DaysBeforeYear(k) < n /\ n <= DaysBeforeYear(k + 1)
        md == MonthAndDay(y, 1, n - DaysBeforeYear(y))
    IN  IF y > 9999 THEN [ok |-> FALSE, date |-> NoDate]
        ELSE [ok |-> TRUE,
              date |-> [year |-> y, month |-> md.month, day |-> md.day]]

\* The date of day d of ISO week w of year y.  Week 1 is the week that
\* holds the first Thursday of the year; a year has a week 53 when it starts
\* on a Thursday, or is a leap year and starts on a Wednesday.
IsoWeekToGregorian(y, w, d) ==
    LET firstday == YmdToOrd(y, 1, 1)
        firstweekday == (firstday + 6) % 7
        monday == firstday - firstweekday
        week1monday == IF firstweekday > 3 THEN monday + 7 ELSE monday
        first == firstday % 7
        has53 == first = 4 \/ (first = 3 /\ IsLeap(y))
    IN  IF \/ y < 1 \/ y > 9999
           \/ w < 1 \/ w > 53 \/ (w = 53 /\ ~has53)
           \/ d < 1 \/ d > 7
        THEN [ok |-> FALSE, date |-> NoDate]
        ELSE OrdToYmd(week1monday + (w - 1) * 7 + (d - 1))

\* The UTF-8 bytes of a str: one to four bytes for each character.
RECURSIVE Utf8(_)
Utf8(chars) ==
    IF chars = <<>> THEN <<>>
    ELSE LET c == Head(chars)
             bytes ==
                 IF c < 128 THEN <<c>>
                 ELSE IF c < 2048 THEN <<192 + (c \div 64), 128 + (c % 64)>>
                 ELSE IF c < 65536
                 THEN <<224 + (c \div 4096), 128 + ((c \div 64) % 64),
                        128 + (c % 64)>>
                 ELSE <<240 + (c \div 262144), 128 + ((c \div 4096) % 64),
                        128 + ((c \div 64) % 64), 128 + (c % 64)>>
         IN  bytes \o Utf8(Tail(chars))

\* DateTranscoding.decode: date.fromisoformat(data), which reads the UTF-8
\* bytes of the str.  7, 8 or 10 bytes are read as YYYY-MM-DD or YYYYMMDD, or
\* as a week date YYYY-Www, YYYYWww, YYYY-Www-D or YYYYWwwD (the day of a
\* week date is 1 when it is not given); the separator after the year
\* decides whether one is asked for before the day, and the bytes after the
\* day are not read.  ok = FALSE is the ValueError it raises for anything
\* else, a str with a lone surrogate (55296 to 57343), which has no UTF-8
\* encoding, included.
DateDecode(data) ==
    LET bytes == Utf8(data)
        n == Len(bytes)
        fail == [ok |-> FALSE, date |-> NoDate]
        Digits(a, b) == b <= n /\ \A i \in a..b : IsDigit(bytes[i])
        sep == bytes[5] = Hyphen
        skip == IF sep THEN 1 ELSE 0
        pos == 5 + skip
    IN  IF (\E i \in 1..Len(data) : 55296 <= data[i] /\ data[i] <= 57343)
           \/ n \notin {7, 8, 10} \/ ~Digits(1, 4)
        THEN fail
        ELSE LET y == ParseInt(SubSeq(bytes, 1, 4))
             IN  IF bytes[pos] = WeekLetter
                 THEN IF ~Digits(pos + 1, pos + 2) THEN fail
                      ELSE LET w == ParseInt(SubSeq(bytes, pos + 1, pos + 2))
                               q == pos + 3
                           IN  IF n < q THEN IsoWeekToGregorian(y, w, 1)
                               ELSE IF (bytes[q] = Hyphen) # sep
                                       \/ ~Digits(q + skip, q + skip)
                               THEN fail
                               ELSE IsoWeekToGregorian(y, w,
                                        ParseInt(<<bytes[q + skip]>>))
                 ELSE IF ~Digits(pos, pos + 1) THEN fail
                      ELSE LET m == ParseInt(SubSeq(bytes, pos, pos + 1))
                               q == pos + 2
                           IN  IF n < q \/ (bytes[q] = Hyphen) # sep
                                  \/ ~Digits(q + skip, q + skip + 1)
                               THEN fail
                               ELSE LET d == ParseInt(SubSeq(bytes, q + skip,
                                                             q + skip + 1))
                                    IN  IF IsDate(y, m, d)
                                        THEN [ok |-> TRUE,
                                              date |-> [year |-> y, month |-> m,
                                                        day |-> d]]
                                        ELSE fail

----------------------------------------------------------------------------
\* The callers of the repository.

AmenityLists == {<<>>, <<"pool">>}

Years == {1799, 1800, 2026, 2027}

NoArgTopics ==
    {"MarkedAsLeased", "MarkedAsAvailable", "MarkedAsUnleasable",
     "MarkedAsLeasable"}

UnitCommands ==
    {[topic |-> t, args |-> NoArgs] : t \in NoArgTopics}
    \cup {[topic |-> "AddressUpdated", args |-> [NoArgs EXCEPT !.address = a]] :
            a \in Addresses}
    \cup {[topic |-> "AmenitiesUpdated",
           args |-> [NoArgs EXCEPT !.amenities = Some(l)]] : l \in AmenityLists}
    \cup {[topic |-> "BuiltInYearUpdated",
           args |-> [NoArgs EXCEPT !.built_in = Some(y)]] : y \in Years}

\* The commands the callers of the repository issue.
RepoCommands ==
    {c \in UnitCommands : c.topic \in {"MarkedAsLeased", "MarkedAsUnleasable"}}

\* The arguments the callers of the repository give to Unit.create.
CreateInputs ==
    {[NoArgs EXCEPT !.address = "a1"],
     [NoArgs EXCEPT !.address = "a2", !.amenities = Some(<<"pool">>),
                    !.built_in = Some(1990)]}

\* A writer that holds no unit.
NoWriter ==
    [inst |-> NoUnit, pending |-> <<>>, base |-> 0, ncmd |-> 0, nsave |-> 0,
     last |-> "none", lenAtSave |-> 0, retry |-> FALSE]

\* The arguments a client of the Unit class gives to Unit.create.
UnitCreateInputs ==
    {[NoArgs EXCEPT !.address = a, !.amenities = m, !.built_in = b] :
        a \in Addresses, m \in {None} \cup {Some(l) : l \in AmenityLists},
        b \in {None, Some(1799), Some(1990)}}

\* No call made yet.
NoCall ==
    [op |-> "none", ok |-> TRUE, id |-> 0, start_date |-> 0, end_date |-> 0,
     identification_number |-> "", units |-> <<>>]

\* Inputs of the Lease commands.
Dates == 1..MaxDate

TenantIds == {1, 2}

TenantLists == {<<1>>, <<1, 2>>}

LeaseCreateInputs ==
    {[NoLeaseArgs EXCEPT !.unit_id = UuidRef(1), !.tenant_ids = t,
                         !.start_date = Some(s), !.end_date = Some(d)] :
        t \in TenantLists, s \in Dates, d \in Dates}

OptionalDates == {None} \cup {Some(d) : d \in Dates}

LeaseCommands ==
    {[topic |-> "SignedByTenant", args |-> NoLeaseArgs]}
    \cup {[topic |-> t, args |-> [NoLeaseArgs EXCEPT !.tenant_id = x]] :
            t \in {"TenantAdded", "TenantRemoved"}, x \in TenantIds}
    \cup {[topic |-> "DateUpdated",
           args |-> [NoLeaseArgs EXCEPT !.start_date = s, !.end_date = d]] :
            s \in OptionalDates, d \in OptionalDates}

\* Inputs of a client that works on the tenants of a lease: lists with one
\* id, with two ids and with one id twice.
TenantListInputs ==
    {[NoLeaseArgs EXCEPT !.unit_id = UuidRef(1), !.tenant_ids = t,
                         !.start_date = Some(1), !.end_date = Some(2)] :
        t \in {<<1>>, <<1, 2>>, <<1, 1>>}}

TenantListCommands ==
    {c \in LeaseCommands : c.topic \in {"TenantAdded", "TenantRemoved"}}

\* A client that holds no lease.
NoLeaseWriter ==
    [inst |-> NoLease, pending |-> <<>>, nid |-> 0, nsave |-> 0,
     last |-> "none"]

\* The dates given to the transcoder: the ends of the range of date, years
\* of fewer than four digits, leap and common years, and the days at which
\* the width of a field and the length of a month change.
CalendarDates ==
    {d \in [year : {1, 999, 1900, 2000, 2023, 2024, 9999}, month : 1..12,
            day : {1, 9, 10, 28, 29, 30, 31}] :
        IsDate(d.year, d.month, d.day)}

\* No date given to the transcoder.
NoWire ==
    [stage |-> "none", date |-> NoDate, data |-> <<>>,
     back |-> [ok |-> FALSE, date |-> NoDate]]

\* Inputs of the Tenant commands.
IdentificationNumbers == {"n1", "n2"}

TenantCreateInputs ==
    {[NoTenantArgs EXCEPT !.identification_number = n, !.first_name = "f1",
                          !.last_name = "l1", !.email = Some("e1"),
                          !.phone_number = Some("p1"),
                          !.dob = [year |-> 1980, month |-> 1, day |-> 1]] :
        n \in IdentificationNumbers}

OptionalStrings(values) == {None, Some("")} \cup {Some(v) : v \in values}

TenantCommands ==
    {[topic |-> t, args |-> NoTenantArgs] : t \in {"Approved", "Disapproved"}}
    \cup {[topic |-> "ContactInfoUpdated",
           args |-> [NoTenantArgs EXCEPT !.email = m, !.phone_number = ph]] :
            m \in OptionalStrings({"e2"}), ph \in OptionalStrings({"p2"})}

\* A client that holds no tenant.
NoTenantWriter == [inst |-> NoTenant, pending |-> <<>>]

\* Inputs of the GraphQL mutations and of the repository clients that work
\* beside them.  An id of a GraphQL input is a str.
ApiUnitInputs == {[NoArgs EXCEPT !.address = "a1"]}

ApiLeaseSeeds ==
    {[NoLeaseArgs EXCEPT !.unit_id = u, !.tenant_ids = <<1>>,
                         !.start_date = Some(1), !.end_date = Some(2)] :
        u \in {UuidRef(1), StrRef(1)}}

ApiLeaseInputs ==
    {[NoLeaseArgs EXCEPT !.unit_id = StrRef(u), !.tenant_ids = t,
                         !.start_date = Some(1), !.end_date = Some(2)] :
        u \in {1, 2}, t \in TenantLists}

ApiIds == {1, 2}

\* The mutations that load a unit, call one command method and save it,
\* with the arguments of the method.
UnitMutations ==
    {[op |-> "updateUnitAmenities", topic |-> "AmenitiesUpdated",
      args |-> [NoArgs EXCEPT !.amenities = Some(<<"pool">>)]],
     [op |-> "markUnitAsLeased", topic |-> "MarkedAsLeased", args |-> NoArgs],
     [op |-> "markUnitAsAvailable", topic |-> "MarkedAsAvailable",
      args |-> NoArgs]}

\* The mutations that load a tenant, call one command method and save it.
TenantMutations ==
    {[op |-> "approveTenant", topic |-> "Approved", args |-> NoTenantArgs],
     [op |-> "disapproveTenant", topic |-> "Disapproved",
      args |-> NoTenantArgs],
     [op |-> "updateTenantContact", topic |-> "ContactInfoUpdated",
      args |-> [NoTenantArgs EXCEPT !.email = Some("e2")]]}

\* The mutations the server works on at the same time, and a mutation that
\* has not come in: pc is the call the resolver makes next, pending the
\* events of the aggregate it holds, saved the repositories it has saved to,
\* tenant_input and lease_input the input of a create mutation, and next the
\* place in input.tenant_ids the loop of create_lease has come to.
Resolvers == {"m1"}

NoResolver ==
    [pc |-> "idle", op |-> "none", id |-> 0, pending |-> <<>>,
     unit_id |-> NoRef, saved |-> {}, tenant_input |-> NoTenantArgs,
     lease_input |-> NoLeaseArgs, next |-> 0]

\* The createTenant requests the server works on at the same time, and a
\* request that has not come in.
Requests == {"r1", "r2"}

NoRequest ==
    [pc |-> "idle", input |-> NoTenantArgs, ok |-> FALSE, id |-> 0,
     raced |-> FALSE]

\* The state after construction.  The event store is the database that
\* DATABASE_URL names; constructing a repository opens it and leaves its
\* rows as they are.  stores are the rows it may hold then, ids the number
\* of unit ids in use in them.
InitOn(stores, ids) ==
    /\ stored \in stores
    /\ clock = 0
    /\ nextId = ids
    /\ writer = [w \in Writers |-> NoWriter]
    /\ nsaved = 0
    /\ reads = <<>>
    /\ pager = [cursor |-> 0, seen |-> <<>>, pages |-> <<>>, npages |-> 0]
    /\ page = [gt |-> None, lte |-> None, desc |-> None, limit |-> None,
               status |-> "none", items |-> <<>>]
    /\ scan = [op |-> "none", todo |-> <<>>, items |-> <<>>]
    /\ call = NoCall
    /\ lstored = {}
    /\ lwriter = NoLeaseWriter
    /\ wire = NoWire
    /\ tstored = {}
    /\ twriter = NoTenantWriter
    /\ requests = [r \in Requests |-> NoRequest]
    /\ inflight = [r \in Resolvers |-> NoResolver]

\* Construction on an empty event store, as in the tests (sqlite :memory:).
Init == InitOn({{}}, 0)

\* Rows of an event store that get_all and get_units are given to read: a
\* unit log of up to maxLogged entries (UnitLogged events on the stream of
\* the log, at positions 1..n), entry i naming unit order[i], and for every
\* unit as many events as entries name it, a Created event followed by
\* AmenitiesUpdated events.
LoggedStores(maxLogged) ==
    {{Event(UnitLogId, i, "UnitLogged", [NoArgs EXCEPT !.unit_id = order[i]]) :
          i \in 1..Len(order)}
       \cup {IF \A j \in 1..(i - 1) : order[j] # order[i]
              THEN Event(order[i], 1, "Created",
                         [NoArgs EXCEPT !.address = "a1"])
              ELSE Event(order[i],
                         Cardinality({j \in 1..i : order[j] = order[i]}),
                         "AmenitiesUpdated",
                         [NoArgs EXCEPT !.amenities = Some(<<"pool">>)]) :
                 i \in 1..Len(order)}
     : order \in UNION {[1..n -> 1..MaxLoggedUnits] : n \in 0..maxLogged}}

\* Unit.create(address, amenities, built_in): a new id from uuid4, the
\* Created event applied and left pending.
Create(w, args, maxUnits) ==
    /\ nextId < maxUnits
    /\ LET e == Event(nextId + 1, 1, "Created", args)
       IN  writer' = [writer EXCEPT ![w] =
                        [NoWriter EXCEPT !.inst = UnitInit(e, clock),
                                         !.pending = <<e>>]]
    /\ nextId' = nextId + 1
    /\ UNCHANGED <<scan, page, inflight, requests, wire, tstored, twriter, call, lstored, lwriter, stored, clock, nsaved, reads, pager>>

\* A writer loads a unit: unit = repo.get(id).  A get that raises gives the
\* writer no unit.
Load(w, id) ==
    /\ id \in 1..nextId
    /\ LET r == UnitRepositoryGet(stored, id, clock)
       IN  /\ r.status = "ok"
           /\ writer' = [writer EXCEPT ![w] =
                           [NoWriter EXCEPT
                               !.inst = r.unit,
                               !.base = r.unit.version,
                               !.retry = (writer[w].last = "conflict"
                                          /\ writer[w].inst.id = id)]]
    /\ UNCHANGED <<scan, page, inflight, requests, wire, tstored, twriter, call, lstored, lwriter, stored, clock, nextId, nsaved, reads, pager>>

\* A writer calls a command method on the unit it holds.  When the body
\* raises, the unit, its version and its pending events are as before.
Command(w, c, maxVersion) ==
    /\ writer[w].inst # NoUnit
    /\ writer[w].inst.version < maxVersion
    /\ LET e == TriggerUnitEvent(writer[w].inst, c.topic, c.args)
           r == Mutate(writer[w].inst, e)
       IN  /\ r.ok
           /\ writer' = [writer EXCEPT
                           ![w].inst = r.unit,
                           ![w].pending = Append(@, e),
                           ![w].ncmd = @ + 1]
    /\ UNCHANGED <<scan, page, inflight, requests, wire, tstored, twriter, call, lstored, lwriter, stored, clock, nextId, nsaved, reads, pager>>

\* A writer calls repo.save(unit).  The pending events are collected before
\* the insert, so they are gone from the unit whether or not the insert is
\* refused.
Save(w) ==
    /\ writer[w].inst # NoUnit
    /\ writer[w].nsave < MaxSaves
    /\ nsaved < MaxSaved
    /\ LET r == UnitRepositorySave(stored, writer[w].pending, writer[w].inst.id)
       IN  /\ stored' = r.store
           /\ nsaved' = IF r.ok THEN nsaved + 1 ELSE nsaved
           /\ reads' = IF r.store # stored THEN <<>> ELSE reads
           /\ writer' = [writer EXCEPT
                           ![w].pending = <<>>,
                           ![w].nsave = @ + 1,
                           ![w].last = IF r.ok THEN "ok" ELSE "conflict",
                           ![w].lenAtSave =
                               Cardinality(StreamRows(stored, writer[w].inst.id))]
    /\ UNCHANGED <<scan, page, inflight, requests, wire, tstored, twriter, call, lstored, lwriter, clock, nextId, pager>>

\* Time passes.
Tick ==
    /\ clock < MaxClock
    /\ clock' = clock + 1
    /\ UNCHANGED <<scan, page, inflight, requests, wire, tstored, twriter, call, lstored, lwriter, stored, nextId, writer, nsaved, reads, pager>>

\* A reader calls repo.get(id); the last two results since the last write
\* are kept.
Get(id) ==
    /\ id \in 1..nextId
    /\ LET r == [id |-> id, res |-> UnitRepositoryGet(stored, id, clock)]
       IN  reads' = IF Len(reads) = 2 THEN <<reads[2], r>> ELSE Append(reads, r)
    /\ UNCHANGED <<scan, page, inflight, requests, wire, tstored, twriter, call, lstored, lwriter, stored, clock, nextId, writer, nsaved, pager>>

\* What a get_all or get_units call holds after one read of the recorder.
\* op is the call, p the arguments of a single get_units call, todo the log
\* entries it has read and not resolved yet, items the pairs it has
\* resolved, status "ok" unless Repository.get raised.  The call ends when
\* no entry is left or when the exception leaves the loop: the paging client
\* then moves its cursor to the last position it was given, and get_all
\* returns its list.  The pairs of get_units are handed over one by one,
\* each when its unit has been read.
ReadOn(op, p, todo, items, status) ==
    LET ended == todo = <<>> \/ status # "ok"
        ps == [i \in 1..Len(items) |-> items[i].position]
    IN  /\ scan' = IF ended THEN [op |-> "none", todo |-> <<>>, items |-> <<>>]
                   ELSE [op |-> op, todo |-> todo, items |-> items]
        /\ page' = IF op # "get_units" THEN page
                   ELSE [p EXCEPT !.status = IF ended THEN status ELSE "reading",
                                  !.items = items]
        /\ pager' = IF op # "page" \/ ~ended THEN pager
                    ELSE [cursor |-> IF ps = <<>> THEN pager.cursor
                                     ELSE ps[Len(ps)],
                          seen |-> pager.seen \o ps,
                          pages |-> Append(pager.pages, ps),
                          npages |-> pager.npages + 1]
        /\ call' = IF op # "get_all" \/ ~ended THEN call
                   ELSE IF status # "ok"
                        THEN [NoCall EXCEPT !.op = "get_all", !.ok = FALSE]
                        ELSE [NoCall EXCEPT
                                 !.op = "get_all", !.id = Len(items),
                                 !.units = [i \in 1..Len(items) |-> items[i].unit]]

\* A client fetches the next page: get_units(gt=cursor, desc=False,
\* limit=PageLimit).  The step is the read of the log, the first read the
\* generator makes; the units are read afterwards, one by one (ReadUnit).
FetchPage ==
    /\ scan.op = "none"
    /\ pager.npages < MaxPages
    /\ ReadOn("page", page,
              LogGet(stored, Some(pager.cursor), None, FALSE, Some(PageLimit)),
              <<>>, "ok")
    /\ UNCHANGED <<inflight, requests, wire, tstored, twriter, lstored, lwriter,
                   stored, clock, nextId, writer, nsaved, reads>>

\* A client calls a command method of the unit it holds and sees it return
\* or raise.  The event is pending only when the method returned.
Call(w, c, maxVersion) ==
    /\ writer[w].inst # NoUnit
    /\ writer[w].inst.version < maxVersion
    /\ LET e == TriggerUnitEvent(writer[w].inst, c.topic, c.args)
           r == Mutate(writer[w].inst, e)
       IN  /\ writer' = [writer EXCEPT
                           ![w].inst = r.unit,
                           ![w].pending = IF r.ok THEN Append(@, e) ELSE @,
                           ![w].ncmd = IF r.ok THEN @ + 1 ELSE @]
           /\ call' = [NoCall EXCEPT !.op = c.topic, !.ok = r.ok,
                                     !.id = writer[w].inst.id]
    /\ UNCHANGED <<scan, page, inflight, requests, wire, tstored, twriter, stored, clock, nextId, nsaved, reads, pager, lstored, lwriter>>

\* A client calls repo.delete(unit) with the unit it holds.
Delete(w) ==
    /\ writer[w].inst # NoUnit
    /\ LET r == UnitRepositoryDelete(stored, writer[w].inst.id)
       IN  /\ stored' = r.store
           /\ reads' = IF r.store # stored THEN <<>> ELSE reads
           /\ call' = [NoCall EXCEPT !.op = "delete", !.ok = r.ok,
                                     !.id = writer[w].inst.id]
    /\ UNCHANGED <<scan, page, inflight, requests, wire, tstored, twriter, clock, nextId, writer, nsaved, pager, lstored, lwriter>>

\* A client calls repo.get_all().  The step is the read of the log, with the
\* library's defaults (ascending, unbounded); the units are read afterwards,
\* one by one (ReadUnit).  When the call has returned, units is the list it
\* gave and id the length of the list.
ListAll ==
    /\ scan.op = "none"
    /\ ReadOn("get_all", page, LogGet(stored, None, None, FALSE, None),
              <<>>, "ok")
    /\ UNCHANGED <<inflight, requests, wire, tstored, twriter, lstored, lwriter,
                   stored, clock, nextId, writer, nsaved, reads>>

\* A client makes one paginated read and runs the generator to its end:
\* list(get_units(gt=, lte=, desc=, limit=)).  An argument that is None is
\* left out of the call; desc left out is True, the default of the
\* signature.  The step is the read of the log; items is what the generator
\* has yielded so far, status "reading" until it has ended and then how it
\* ended.
ReadUnits(gt, lte, desc, limit) ==
    /\ scan.op = "none"
    /\ ReadOn("get_units",
              [gt |-> gt, lte |-> lte, desc |-> desc, limit |-> limit,
               status |-> "ok", items |-> <<>>],
              LogGet(stored, gt, lte, IF desc = None THEN TRUE ELSE desc[1],
                     limit),
              <<>>, "ok")
    /\ UNCHANGED <<inflight, requests, wire, tstored, twriter, lstored, lwriter,
                   stored, clock, nextId, writer, nsaved, reads>>

\* The call in progress resolves the next log entry it has read:
\* self.repository.get(notification.unit_id), one read of the recorder, on
\* the store as it is by then.  A unit that is found is appended (get_all) or
\* yielded with the position of the entry (get_units); a KeyError skips the
\* entry; any other exception ends the call.
ReadUnit ==
    /\ scan.op # "none"
    /\ \E r \in {RepositoryGet(stored, Head(scan.todo).state.unit_id, clock)} :
           ReadOn(scan.op, page, Tail(scan.todo),
                  IF r.status = "ok"
                  THEN Append(scan.items,
                              [position |-> Head(scan.todo).originator_version,
                               unit |-> r.unit])
                  ELSE scan.items,
                  IF r.status = "ok" \/ r.status \in KeyErrors THEN "ok"
                  ELSE r.status)
    /\ UNCHANGED <<inflight, requests, wire, tstored, twriter, lstored, lwriter,
                   stored, clock, nextId, writer, nsaved, reads>>

\* Lease.create(unit_id, tenant_ids, start_date, end_date): the dates are
\* checked, then the instance is constructed with its Created event pending.
LeaseCreate(args, maxLeases) ==
    /\ LeaseDatesValid(args.start_date[1], args.end_date[1])
           => lwriter.nid < maxLeases
    /\ LET valid == LeaseDatesValid(args.start_date[1], args.end_date[1])
           e == Event(lwriter.nid + 1, 1, "Created", args)
       IN  /\ lwriter' = IF valid
                         THEN [NoLeaseWriter EXCEPT
                                  !.inst = LeaseInit(e, clock),
                                  !.pending = <<e>>,
                                  !.nid = lwriter.nid + 1]
                         ELSE lwriter
           /\ call' = [NoCall EXCEPT
                          !.op = "Lease.create", !.ok = valid,
                          !.id = IF valid THEN lwriter.nid + 1 ELSE 0,
                          !.start_date = args.start_date[1],
                          !.end_date = args.end_date[1]]
    /\ UNCHANGED <<scan, page, inflight, requests, wire, tstored, twriter, stored, clock, nextId, writer, nsaved, reads, pager, lstored>>

\* The pending events after a command body has run: tenant_ids of the lease
\* is the list object the pending Created event carries, so what the body
\* does to the list shows in that event until it is saved.
Aliased(pending, l) ==
    IF pending # <<>> /\ pending[1].topic = "Created"
    THEN [pending EXCEPT ![1].state.tenant_ids = l.tenant_ids]
    ELSE pending

\* The client calls a command method of the lease it holds and sees it
\* return or raise.
LeaseCommand(c, maxVersion) ==
    /\ lwriter.inst # NoLease
    /\ lwriter.inst.version < maxVersion
    /\ LET e == Event(lwriter.inst.id, lwriter.inst.version + 1, c.topic, c.args)
           r == LeaseMutate(lwriter.inst, e, clock)
           p == Aliased(lwriter.pending, r.lease)
       IN  /\ lwriter' = [lwriter EXCEPT
                            !.inst = r.lease,
                            !.pending = IF r.ok THEN Append(p, e) ELSE p]
           /\ call' = [NoCall EXCEPT
                          !.op = c.topic, !.ok = r.ok, !.id = lwriter.inst.id,
                          !.start_date = lwriter.inst.start_date,
                          !.end_date = lwriter.inst.end_date]
    /\ UNCHANGED <<scan, page, inflight, requests, wire, tstored, twriter, stored, clock, nextId, writer, nsaved, reads, pager, lstored>>

\* The client calls lease_repo.save(lease).
LeaseSave ==
    /\ lwriter.inst # NoLease
    /\ lwriter.nsave < MaxLeaseSaves
    /\ LET r == LeaseRepositorySave(lstored, lwriter.pending, lwriter.inst.id)
       IN  /\ lstored' = r.store
           /\ lwriter' = [lwriter EXCEPT
                            !.pending = <<>>,
                            !.nsave = @ + 1,
                            !.last = IF r.ok THEN "ok" ELSE "conflict"]
    /\ UNCHANGED <<scan, page, inflight, requests, wire, tstored, twriter, stored, clock, nextId, writer, nsaved, reads, pager, call>>

\* The client loads a lease: lease = lease_repo.get(id).
LeaseLoad(id) ==
    /\ id \in 1..lwriter.nid
    /\ LET r == LeaseRepositoryGet(lstored, id, clock)
       IN  /\ r.status = "ok"
           /\ lwriter' = [lwriter EXCEPT !.inst = r.lease, !.pending = <<>>,
                                         !.last = "none"]
    /\ UNCHANGED <<scan, page, inflight, requests, wire, tstored, twriter, stored, clock, nextId, writer, nsaved, reads, pager,
                   call, lstored>>

\* Tenant.create(...): a new id from uuid4, the Created event applied and
\* left pending.
TenantCreate(args, maxTenants) ==
    /\ twriter.pending = <<>>
    /\ FreshId(tstored) <= maxTenants
    /\ LET e == Event(FreshId(tstored), 1, "Created", args)
       IN  /\ twriter' = [inst |-> TenantInit(e, clock), pending |-> <<e>>]
           /\ call' = [NoCall EXCEPT !.op = "Tenant.create",
                                     !.id = e.originator_id]
    /\ UNCHANGED <<scan, page, inflight, requests, stored, clock, nextId, writer, nsaved, reads, pager,
                   lstored, lwriter, wire, tstored>>

\* The client calls a command method of the tenant it holds.
TenantCommand(c, maxVersion) ==
    /\ twriter.inst # NoTenant
    /\ twriter.inst.version < maxVersion
    /\ LET e == Event(twriter.inst.id, twriter.inst.version + 1, c.topic, c.args)
           r == TenantMutate(twriter.inst, e)
       IN  /\ twriter' = [inst |-> r.tenant,
                          pending |-> IF r.ok THEN Append(twriter.pending, e)
                                      ELSE twriter.pending]
           /\ call' = [NoCall EXCEPT !.op = c.topic, !.ok = r.ok,
                                     !.id = twriter.inst.id]
    /\ UNCHANGED <<scan, page, inflight, requests, stored, clock, nextId, writer, nsaved, reads, pager,
                   lstored, lwriter, wire, tstored>>

\* The client calls tenant_repo.save(tenant) with the tenant it holds.
TenantSave ==
    /\ twriter.inst # NoTenant
    /\ twriter.pending # <<>>
    /\ LET r == TenantRepositorySave(tstored, twriter.pending, twriter.inst.id)
       IN  /\ tstored' = r.store
           /\ twriter' = [twriter EXCEPT !.pending = <<>>]
           /\ call' = [NoCall EXCEPT !.op = "tenant_repo.save", !.ok = r.ok,
                                     !.id = twriter.inst.id]
    /\ UNCHANGED <<scan, page, inflight, requests, stored, clock, nextId, writer, nsaved, reads, pager,
                   lstored, lwriter, wire>>

\* A createUnit mutation.
CreateUnitMutation(input) ==
    /\ \E r \in {CreateUnitResolver(stored, input)} :
           /\ stored' = r.ustore
           /\ call' = [NoCall EXCEPT !.op = "createUnit", !.ok = r.ok,
                                     !.id = r.id]
    /\ UNCHANGED <<scan, page, inflight, requests, clock, nextId, writer, nsaved, reads, pager, lstored,
                   lwriter, wire, tstored, twriter>>

\* What a mutation that has ended leaves: its result in call, and no
\* mutation in its place.
Ended(r, op, id, ok) ==
    /\ call' = [NoCall EXCEPT !.op = op, !.ok = ok, !.id = id]
    /\ inflight' = [inflight EXCEPT ![r] = NoResolver]

\* A mutation on a unit, up to its save: repo.get, the check of the result
\* and the command method.  What raises ends the mutation.
UnitMutationGet(r, m, id, maxVersion) ==
    /\ inflight[r].pc = "idle"
    /\ \E g \in {UnitCommandResolver(stored, id, m.topic, m.args, clock)} :
           IF g.ok
           THEN /\ g.pending[1].originator_version <= maxVersion
                /\ inflight' = [inflight EXCEPT ![r] =
                                   [NoResolver EXCEPT !.pc = "unit_save",
                                                      !.op = m.op, !.id = id,
                                                      !.pending = g.pending]]
                /\ call' = call
           ELSE Ended(r, m.op, id, FALSE)
    /\ UNCHANGED <<scan, page, requests, stored, clock, nextId, writer, nsaved, reads, pager,
                   lstored, lwriter, wire, tstored, twriter>>

\* A mutation on a unit, its last call: repo.save(unit).
UnitMutationSave(r) ==
    /\ inflight[r].pc = "unit_save"
    /\ inflight[r].op # "signLease"
    /\ \E s \in {UnitRepositorySave(stored, inflight[r].pending, inflight[r].id)} :
           /\ stored' = s.store
           /\ Ended(r, inflight[r].op, inflight[r].id, s.ok)
    /\ UNCHANGED <<scan, page, requests, clock, nextId, writer, nsaved, reads, pager,
                   lstored, lwriter, wire, tstored, twriter>>

\* A mutation on a tenant, up to its save: repo.get, the check of the
\* result and the command method.
TenantMutationGet(r, m, id, maxVersion) ==
    /\ inflight[r].pc = "idle"
    /\ \E g \in {TenantCommandResolver(tstored, id, m.topic, m.args, clock)} :
           IF g.ok
           THEN /\ g.pending[1].originator_version <= maxVersion
                /\ inflight' = [inflight EXCEPT ![r] =
                                   [NoResolver EXCEPT !.pc = "tenant_save",
                                                      !.op = m.op, !.id = id,
                                                      !.pending = g.pending]]
                /\ call' = call
           ELSE Ended(r, m.op, id, FALSE)
    /\ UNCHANGED <<scan, page, requests, stored, clock, nextId, writer, nsaved, reads, pager,
                   lstored, lwriter, wire, tstored, twriter>>

\* A mutation on a tenant, its last call: repo.save(tenant).
TenantMutationSave(r) ==
    /\ inflight[r].pc = "tenant_save"
    /\ \E s \in {TenantRepositorySave(tstored, inflight[r].pending,
                                      inflight[r].id)} :
           /\ tstored' = s.store
           /\ Ended(r, inflight[r].op, inflight[r].id, s.ok)
    /\ UNCHANGED <<scan, page, requests, stored, clock, nextId, writer, nsaved, reads, pager,
                   lstored, lwriter, wire, twriter>>

\* A createTenant mutation, first call: the lookup by identification
\* number.  A tenant found ends the mutation with a ValueError.
CreateTenantGet(r, input) ==
    /\ inflight[r].pc = "idle"
    /\ \E free \in {CreateTenantLookup(tstored, input.identification_number,
                                        clock)} :
           IF free
           THEN /\ inflight' = [inflight EXCEPT ![r] =
                                   [NoResolver EXCEPT !.pc = "tenant_create",
                                                      !.op = "createTenant",
                                                      !.tenant_input = input]]
                /\ call' = call
           ELSE /\ inflight' = [inflight EXCEPT ![r] = NoResolver]
                /\ call' = [NoCall EXCEPT !.op = "createTenant",
                                          !.ok = FALSE,
                                          !.identification_number =
                                              input.identification_number]
    /\ UNCHANGED <<scan, page, requests, stored, clock, nextId, writer, nsaved, reads, pager,
                   lstored, lwriter, wire, tstored, twriter>>

\* A createTenant mutation, last call: Tenant.create and repo.create.
CreateTenantCreate(r) ==
    /\ inflight[r].pc = "tenant_create"
    /\ \E c \in {CreateTenantResolver(tstored, inflight[r].tenant_input)} :
           /\ tstored' = c.tstore
           /\ inflight' = [inflight EXCEPT ![r] = NoResolver]
           /\ call' = [NoCall EXCEPT !.op = "createTenant", !.ok = c.ok,
                                     !.id = c.id,
                                     !.identification_number =
                                         inflight[r].tenant_input.identification_number]
    /\ UNCHANGED <<scan, page, requests, stored, clock, nextId, writer, nsaved, reads, pager,
                   lstored, lwriter, wire, twriter>>

\* A createLease mutation, first call: unit_repo.get and the checks of the
\* unit.  What raises ends the mutation.
CreateLeaseUnitGet(r, input) ==
    /\ inflight[r].pc = "idle"
    /\ \E passed \in {CreateLeaseUnitResolver(stored, input.unit_id, clock)} :
           IF passed
           THEN /\ inflight' = [inflight EXCEPT ![r] =
                                   [NoResolver EXCEPT
                                       !.pc = "lease_tenant",
                                       !.op = "createLease",
                                       !.lease_input = input,
                                       !.next = 1]]
                /\ call' = call
           ELSE Ended(r, "createLease", 0, FALSE)
    /\ UNCHANGED <<scan, page, requests, stored, clock, nextId, writer, nsaved, reads, pager,
                   lstored, lwriter, wire, tstored, twriter>>

\* A createLease mutation, one call for each of input.tenant_ids:
\* tenant_repo.get and the checks of the tenant.
CreateLeaseTenantGet(r) ==
    /\ inflight[r].pc = "lease_tenant"
    /\ inflight[r].next <= Len(inflight[r].lease_input.tenant_ids)
    /\ LET tenant_ids == inflight[r].lease_input.tenant_ids
           next == inflight[r].next
       IN  \E passed \in {CreateLeaseTenantResolver(tstored, tenant_ids[next],
                                                     clock)} :
               IF passed
               THEN /\ inflight' = [inflight EXCEPT ![r].next = next + 1]
                    /\ call' = call
               ELSE Ended(r, "createLease", 0, FALSE)
    /\ UNCHANGED <<scan, page, requests, stored, clock, nextId, writer, nsaved, reads, pager,
                   lstored, lwriter, wire, tstored, twriter>>

\* A createLease mutation, last call, after the loop: Lease.create and
\* lease_repo.create.
CreateLeaseCreate(r) ==
    /\ inflight[r].pc = "lease_tenant"
    /\ inflight[r].next > Len(inflight[r].lease_input.tenant_ids)
    /\ \E c \in {CreateLeaseResolver(lstored, inflight[r].lease_input)} :
           /\ lstored' = c.lstore
           /\ Ended(r, "createLease", c.id, c.ok)
    /\ UNCHANGED <<scan, page, requests, stored, clock, nextId, writer, nsaved, reads, pager,
                   lwriter, wire, tstored, twriter>>

\* A signLease mutation, first call: lease_repo.get, the check of the
\* result and sign_by_tenant.
SignLeaseGet(r, id, maxVersion) ==
    /\ inflight[r].pc = "idle"
    /\ \E g \in {SignLeaseResolver(lstored, id, clock)} :
           IF g.ok
           THEN /\ g.pending[1].originator_version <= maxVersion
                /\ inflight' = [inflight EXCEPT ![r] =
                                   [NoResolver EXCEPT !.pc = "lease_save",
                                                      !.op = "signLease",
                                                      !.id = id,
                                                      !.pending = g.pending,
                                                      !.unit_id = g.unit_id]]
                /\ call' = call
           ELSE Ended(r, "signLease", id, FALSE)
    /\ UNCHANGED <<scan, page, requests, stored, clock, nextId, writer, nsaved, reads, pager,
                   lstored, lwriter, wire, tstored, twriter>>

\* A signLease mutation, second call: lease_repo.save(lease).
SignLeaseSave(r) ==
    /\ inflight[r].pc = "lease_save"
    /\ \E s \in {LeaseRepositorySave(lstored, inflight[r].pending,
                                     inflight[r].id)} :
           /\ lstored' = s.store
           /\ IF s.ok
              THEN /\ inflight' = [inflight EXCEPT ![r].pc = "unit_get",
                                                   ![r].pending = <<>>,
                                                   ![r].saved = {"lease"}]
                   /\ call' = call
              ELSE Ended(r, "signLease", inflight[r].id, FALSE)
    /\ UNCHANGED <<scan, page, requests, stored, clock, nextId, writer, nsaved, reads, pager,
                   lwriter, wire, tstored, twriter>>

\* A signLease mutation, third call: unit_repo.get(UUID(lease.unit_id)) and
\* mark_as_leased.  With no unit the mutation returns the lease.
SignLeaseUnitGet(r, maxVersion) ==
    /\ inflight[r].pc = "unit_get"
    /\ \E g \in {SignLeaseUnitResolver(stored, inflight[r].unit_id, clock)} :
           IF g.status = "ok"
           THEN /\ g.pending[1].originator_version <= maxVersion
                /\ inflight' = [inflight EXCEPT ![r].pc = "unit_save",
                                                ![r].pending = g.pending]
                /\ call' = call
           ELSE Ended(r, "signLease", inflight[r].id, g.status = "none")
    /\ UNCHANGED <<scan, page, requests, stored, clock, nextId, writer, nsaved, reads, pager,
                   lstored, lwriter, wire, tstored, twriter>>

\* A signLease mutation, last call: unit_repo.save(unit).
SignLeaseUnitSave(r) ==
    /\ inflight[r].pc = "unit_save"
    /\ inflight[r].op = "signLease"
    /\ \E s \in {UnitRepositorySave(stored, inflight[r].pending,
                                    inflight[r].pending[1].originator_id)} :
           /\ stored' = s.store
           /\ Ended(r, "signLease", inflight[r].id, s.ok)
    /\ UNCHANGED <<scan, page, requests, clock, nextId, writer, nsaved, reads, pager,
                   lstored, lwriter, wire, tstored, twriter>>

\* A createTenant request, first step: the lookup by identification
\* number.  A tenant found ends the request with a ValueError.
CheckTenant(r, input) ==
    /\ requests[r].pc = "idle"
    /\ LET existing == GetByIdentificationNumber(tstored,
                            input.identification_number, clock)
           found == existing.status # "ok" \/ existing.tenant # NoTenant
       IN  requests' = [requests EXCEPT ![r] =
                           [NoRequest EXCEPT
                               !.pc = IF found THEN "done" ELSE "checked",
                               !.input = input]]
    /\ UNCHANGED <<scan, page, inflight, stored, clock, nextId, writer, nsaved, reads, pager,
                   call, lstored, lwriter, wire, tstored, twriter>>

\* A createTenant request, second step: Tenant.create and repo.create.  The
\* request has raced when the other request is between its two steps.
StoreTenant(r) ==
    /\ requests[r].pc = "checked"
    /\ LET e == Event(FreshId(tstored), 1, "Created", requests[r].input)
           c == ApplicationCreate(tstored, <<e>>)
       IN  /\ tstored' = c.store
           /\ requests' = [requests EXCEPT ![r] =
                              [@ EXCEPT
                                  !.pc = "done",
                                  !.ok = c.ok,
                                  !.id = IF c.ok THEN e.originator_id ELSE 0,
                                  !.raced = \E o \in Requests \ {r} :
                                                requests[o].pc = "checked"]]
    /\ UNCHANGED <<scan, page, inflight, stored, clock, nextId, writer, nsaved, reads, pager,
                   call, lstored, lwriter, wire, twriter>>

\* A date is put in an event payload that is about to be stored.
Give(d) ==
    /\ wire.stage = "none"
    /\ wire' = [NoWire EXCEPT !.stage = "given", !.date = d]
    /\ UNCHANGED <<scan, page, inflight, requests, stored, clock, nextId, writer, nsaved, reads, pager,
                   call, lstored, lwriter, tstored, twriter>>

\* The transcoder encodes the payload: DateTranscoding.encode.
Encode ==
    /\ wire.stage = "given"
    /\ wire' = [wire EXCEPT !.stage = "encoded", !.data = DateEncode(wire.date)]
    /\ UNCHANGED <<scan, page, inflight, requests, stored, clock, nextId, writer, nsaved, reads, pager,
                   call, lstored, lwriter, tstored, twriter>>

\* The transcoder decodes the stored payload: DateTranscoding.decode.
Decode ==
    /\ wire.stage = "encoded"
    /\ wire' = [wire EXCEPT !.stage = "decoded", !.back = DateDecode(wire.data)]
    /\ UNCHANGED <<scan, page, inflight, requests, stored, clock, nextId, writer, nsaved, reads, pager,
                   call, lstored, lwriter, tstored, twriter>>

\* Writers that load, change and save units of one repository concurrently.
Next ==
    \/ \E w \in Writers, a \in CreateInputs : Create(w, a, MaxUnits)
    \/ \E w \in Writers, id \in 1..MaxUnits : Load(w, id)
    \/ \E w \in Writers, c \in RepoCommands : Command(w, c, MaxVersion)
    \/ \E w \in Writers : Save(w)

Spec == Init /\ [][Next]_vars

\* One writer, and readers that get, list and page while time passes.  The
\* store starts empty and save stores no log entry, so a page fetch ends
\* with its read of the log: no entry is left for ReadUnit to resolve.
NextRead ==
    \/ \E a \in CreateInputs : Create("w1", a, MaxListed)
    \/ \E id \in 1..MaxListed : Load("w1", id)
    \/ \E c \in RepoCommands : Command("w1", c, MaxListedVersion)
    \/ Save("w1")
    \/ Tick
    \/ \E id \in 1..MaxListed : Get(id)
    \/ FetchPage

SpecRead == Init /\ [][NextRead]_vars

\* Two writers and two units of one repository.
NextTwo ==
    \/ \E w \in Writers, a \in CreateInputs : Create(w, a, MaxTwoUnits)
    \/ \E w \in Writers, id \in 1..MaxTwoUnits : Load(w, id)
    \/ \E w \in Writers, c \in RepoCommands : Command(w, c, MaxTwoVersion)
    \/ \E w \in Writers : Save(w)

SpecTwo == Init /\ [][NextTwo]_vars

\* One client of the Unit class and of UnitRepository: every command with
\* every input, accepted or not, and the repository's save, get, get_all and
\* delete.  As under SpecRead, get_all ends with its read of the log.
NextUnit ==
    \/ \E a \in UnitCreateInputs : Create("w1", a, MaxUnitOps)
    \/ \E c \in UnitCommands : Call("w1", c, MaxUnitVersion)
    \/ Save("w1")
    \/ \E id \in 1..MaxUnitOps : Get(id)
    \/ ListAll
    \/ Delete("w1")

SpecUnit == Init /\ [][NextUnit]_vars

\* One client of the Lease class and of LeaseRepository.
NextLease ==
    \/ \E a \in LeaseCreateInputs : LeaseCreate(a, MaxLeases)
    \/ \E c \in LeaseCommands : LeaseCommand(c, MaxLeaseVersion)
    \/ LeaseSave
    \/ \E id \in 1..MaxLeases : LeaseLoad(id)

SpecLease == Init /\ [][NextLease]_vars

\* One client of the Lease class and of LeaseRepository that adds and
\* removes tenants.
NextTenants ==
    \/ \E a \in TenantListInputs : LeaseCreate(a, MaxLeases)
    \/ \E c \in TenantListCommands : LeaseCommand(c, MaxLeaseVersion)
    \/ LeaseSave
    \/ \E id \in 1..MaxLeases : LeaseLoad(id)

SpecTenants == Init /\ [][NextTenants]_vars

\* One client of the domain classes: it creates a unit, a tenant or a
\* lease and calls the commands of the aggregate it holds.
NextCommands ==
    \/ /\ lwriter.inst = NoLease /\ twriter.inst = NoTenant
       /\ \E a \in UnitCreateInputs : Create("w1", a, MaxUnitOps)
    \/ \E c \in UnitCommands : Call("w1", c, MaxUnitVersion)
    \/ /\ writer["w1"].inst = NoUnit /\ lwriter.inst = NoLease
       /\ \E a \in TenantCreateInputs : TenantCreate(a, 1)
    \/ \E c \in TenantCommands : TenantCommand(c, MaxTenantVersion)
    \/ /\ writer["w1"].inst = NoUnit /\ twriter.inst = NoTenant
       /\ \E a \in LeaseCreateInputs : LeaseCreate(a, MaxLeases)
    \/ \E c \in LeaseCommands : LeaseCommand(c, MaxLeaseVersion)

SpecCommands == Init /\ [][NextCommands]_vars

\* The GraphQL mutations, beside clients of the repositories that store
\* units, tenants and leases with save.
NextApi ==
    \/ \E a \in ApiUnitInputs : Create("w1", a, MaxUnits)
    \/ \E c \in RepoCommands : Command("w1", c, MaxApiVersion)
    \/ Save("w1")
    \/ \E a \in TenantCreateInputs : TenantCreate(a, MaxApiTenants)
    \/ TenantCommand([topic |-> "Approved", args |-> NoTenantArgs], MaxApiVersion)
    \/ TenantSave
    \/ \E a \in ApiUnitInputs : CreateUnitMutation(a)
    \/ \E r \in Resolvers, a \in TenantCreateInputs : CreateTenantGet(r, a)
    \/ \E r \in Resolvers : CreateTenantCreate(r)
    \/ \E r \in Resolvers, a \in ApiLeaseInputs : CreateLeaseUnitGet(r, a)
    \/ \E r \in Resolvers : CreateLeaseTenantGet(r)
    \/ \E r \in Resolvers : CreateLeaseCreate(r)
    \/ \E r \in Resolvers, m \in UnitMutations, id \in ApiIds :
           UnitMutationGet(r, m, id, MaxApiVersion)
    \/ \E r \in Resolvers : UnitMutationSave(r)
    \/ \E r \in Resolvers, m \in TenantMutations, id \in ApiIds :
           TenantMutationGet(r, m, id, MaxApiVersion)
    \/ \E r \in Resolvers : TenantMutationSave(r)

SpecApi == Init /\ [][NextApi]_vars

\* The signLease mutation and the mutations on units, beside clients of the
\* repositories that store units and leases with save.
NextSign ==
    \/ \E a \in ApiUnitInputs : Create("w1", a, MaxUnits)
    \/ \E c \in RepoCommands : Command("w1", c, MaxSignVersion)
    \/ Save("w1")
    \/ \E a \in ApiLeaseSeeds : LeaseCreate(a, MaxLeases)
    \/ LeaseSave
    \/ \E r \in Resolvers, m \in UnitMutations, id \in ApiIds :
           UnitMutationGet(r, m, id, MaxSignVersion)
    \/ \E r \in Resolvers : UnitMutationSave(r)
    \/ \E r \in Resolvers, id \in ApiIds : SignLeaseGet(r, id, MaxSignVersion)
    \/ \E r \in Resolvers : SignLeaseSave(r)
    \/ \E r \in Resolvers : SignLeaseUnitGet(r, MaxSignVersion)
    \/ \E r \in Resolvers : SignLeaseUnitSave(r)

SpecSign == Init /\ [][NextSign]_vars

\* A client that pages through the unit log and lists the units, on a store
\* whose log holds entries, beside a writer that loads a unit, marks it as
\* leased and saves it.  The writer's steps fall between the reads of the
\* recorder that one get_units or get_all call makes.
NextPages ==
    \/ FetchPage
    \/ ListAll
    \/ ReadUnit
    \/ nsaved < MaxLoggedSaves /\ \E id \in 1..MaxLoggedUnits : Load("w1", id)
    \/ Command("w1", [topic |-> "MarkedAsLeased", args |-> NoArgs],
               MaxLoggedVersion)
    \/ nsaved < MaxLoggedSaves /\ Save("w1")

SpecPages == InitOn(LoggedStores(MaxLogged), MaxLoggedUnits) /\ [][NextPages]_vars

\* A client that reads the unit log, one get_units call at a time, on a store
\* whose log holds entries, beside the same writer.
NextReads ==
    \/ \E gt \in {None, Some(1)}, lte \in {None, Some(3)},
          desc \in {None, Some(FALSE), Some(TRUE)}, limit \in {None, Some(2)} :
          ReadUnits(gt, lte, desc, limit)
    \/ ReadUnit
    \/ nsaved < MaxLoggedSaves /\ \E id \in 1..MaxLoggedUnits : Load("w1", id)
    \/ Command("w1", [topic |-> "MarkedAsLeased", args |-> NoArgs],
               MaxLoggedVersion)
    \/ nsaved < MaxLoggedSaves /\ Save("w1")

SpecReads ==
    InitOn(LoggedStores(MaxReadLogged), MaxLoggedUnits) /\ [][NextReads]_vars

\* The same reads on a store in which the events of a unit that the log
\* names may be gone ("Entity might have been deleted").
NextOrphans ==
    \/ \E gt \in {None, Some(1)}, desc \in {None, Some(FALSE)} :
          ReadUnits(gt, None, desc, None)
    \/ ListAll
    \/ ReadUnit

SpecOrphans ==
    InitOn({s \ StreamRows(s, u) : s \in LoggedStores(MaxOrphanLogged),
                                   u \in 1..(MaxLoggedUnits + 1)},
           MaxLoggedUnits)
        /\ [][NextOrphans]_vars

\* Two createTenant requests served at the same time, beside a client that
\* stores tenants with save.
NextRace ==
    \/ \E a \in TenantCreateInputs : TenantCreate(a, MaxApiTenants)
    \/ \E c \in TenantCommands : TenantCommand(c, MaxApiVersion)
    \/ TenantSave
    \/ \E r \in Requests, a \in TenantCreateInputs : CheckTenant(r, a)
    \/ \E r \in Requests : StoreTenant(r)

SpecRace == Init /\ [][NextRace]_vars

\* The transcoder of the repositories, given calendar dates.
NextCodec ==
    \/ \E d \in CalendarDates : Give(d)
    \/ Encode
    \/ Decode

SpecCodec == Init /\ [][NextCodec]_vars

----------------------------------------------------------------------------
\* Properties of concurrent saves (checked under Spec).

Count(store, id) == Cardinality(StreamRows(store, id))

\* The step is a call of repo.save by writer w.
SaveStep(w) == writer'[w].nsave = writer[w].nsave + 1

\* Writer w loaded its unit at version v, applied one command that produced
\* one event, and has not saved yet.
OneCommandPending(w, v) ==
    /\ writer[w].inst # NoUnit
    /\ writer[w].base = v
    /\ writer[w].ncmd = 1
    /\ writer[w].nsave = 0
    /\ Len(writer[w].pending) = 1

\* Writer w loaded its unit at version v, applied one command and then called
\* save once, when the stream held v events.
OneCommandSaved(w, v) ==
    /\ writer[w].inst # NoUnit
    /\ writer[w].base = v
    /\ writer[w].ncmd = 1
    /\ writer[w].nsave = 1
    /\ writer[w].pending = <<>>
    /\ writer[w].lenAtSave = v

\* C1: two writers load the same unit at the same version V, each applies one
\* command producing one event, and both save with no other append to the
\* stream meanwhile: when the second save returns, the first has succeeded,
\* the second has failed with a conflict, and the stream has V+1 events.
C1_ExactlyOneSaveSucceeds ==
    [][\A w1, w2 \in Writers : \A v \in 1..MaxVersion :
          (/\ w1 # w2
           /\ writer[w1].inst.id = writer[w2].inst.id
           /\ OneCommandSaved(w1, v)
           /\ OneCommandPending(w2, v)
           /\ Count(stored, writer[w1].inst.id)
                = v + (IF writer[w1].last = "ok" THEN 1 ELSE 0)
           /\ SaveStep(w2))
          => /\ writer[w1].last = "ok"
             /\ writer'[w2].last = "conflict"
             /\ Count(stored', writer[w1].inst.id) = v + 1]_vars

\* Both writers loaded one unit at version 2, applied one command and saved:
\* one save succeeded, the other was refused, the stream has 3 events.
C1_Witness ==
    \E w1, w2 \in Writers :
        /\ w1 # w2
        /\ writer[w1].inst.id = writer[w2].inst.id
        /\ OneCommandSaved(w1, 2)
        /\ writer[w1].last = "ok"
        /\ writer[w2].base = 2 /\ writer[w2].ncmd = 1 /\ writer[w2].nsave = 1
        /\ writer[w2].lenAtSave = 3
        /\ writer[w2].last = "conflict"
        /\ Count(stored, writer[w1].inst.id) = 3

\* C2: in every reachable state the versions stored for an aggregate are
\* exactly 1..N, N the number of its stored events.
C2_VersionsContiguous ==
    \A id \in 1..MaxUnits :
        {e.originator_version : e \in StreamRows(stored, id)}
            = 1..Count(stored, id)

\* C3: a writer whose save was refused reloads the unit with get, applies its
\* command to the reloaded unit and saves again while nobody else has appended
\* to the stream since the reload: the save succeeds and the stream grows by
\* the writer's events.
C3_RetryAfterReloadSucceeds ==
    [][\A w \in Writers :
          (/\ writer[w].retry
           /\ writer[w].nsave = 0
           /\ writer[w].pending # <<>>
           /\ Count(stored, writer[w].inst.id) = writer[w].base
           /\ SaveStep(w))
          => /\ writer'[w].last = "ok"
             /\ stored' = stored \cup SeqToSet(writer[w].pending)
             /\ Count(stored', writer[w].inst.id)
                  = writer[w].base + Len(writer[w].pending)]_vars

\* A writer that reloaded after a conflict has saved its command.
C3_Witness ==
    \E w \in Writers :
        /\ writer[w].retry
        /\ writer[w].ncmd >= 1
        /\ writer[w].nsave = 1
        /\ writer[w].last = "ok"
        /\ writer[w].lenAtSave = writer[w].base
        /\ Count(stored, writer[w].inst.id) > writer[w].base

\* C4: a save refused with a conflict stores none of the pending events and
\* adds nothing to the unit log: the recorder is the same before and after.
C4_FailedSaveStoresNothing ==
    [][\A w \in Writers :
          (SaveStep(w) /\ writer'[w].last = "conflict")
          => /\ StreamRows(stored', writer[w].inst.id)
                  = StreamRows(stored, writer[w].inst.id)
             /\ StreamRows(stored', UnitLogId) = StreamRows(stored, UnitLogId)
             /\ stored' = stored]_vars

\* A save of two pending events was refused although the second one alone
\* would not have clashed with a stored row.
C4_Witness ==
    \E w \in Writers :
        /\ writer[w].last = "conflict"
        /\ writer[w].inst.version >= writer[w].base + 2
        /\ writer[w].pending = <<>>
        /\ \A e \in StreamRows(stored, writer[w].inst.id) :
              e.originator_version < writer[w].inst.version

\* C9: when the first save of a newly created unit has succeeded, get(unit.id)
\* returns a unit with the id, address, amenities, is_leasable and is_leased
\* of the saved instance.
C9_GetReturnsSavedUnit ==
    [][\A w \in Writers :
          (/\ writer[w].inst # NoUnit
           /\ writer[w].base = 0
           /\ writer[w].nsave = 0
           /\ SaveStep(w)
           /\ writer'[w].last = "ok")
          => LET u == writer'[w].inst
                 r == UnitRepositoryGet(stored', u.id, clock')
             IN  /\ r.status = "ok"
                 /\ r.unit.id = u.id
                 /\ r.unit.address = u.address
                 /\ r.unit.amenities = u.amenities
                 /\ r.unit.is_leasable = u.is_leasable
                 /\ r.unit.is_leased = u.is_leased]_vars

\* A unit created without amenities and marked leased before its first save
\* is stored.
C9_Witness ==
    \E w \in Writers :
        /\ writer[w].base = 0
        /\ writer[w].nsave = 1
        /\ writer[w].last = "ok"
        /\ writer[w].pending = <<>>
        /\ writer[w].inst.is_leased
        /\ writer[w].inst.amenities = <<>>
        /\ Count(stored, writer[w].inst.id) = writer[w].inst.version

----------------------------------------------------------------------------
\* Properties of the unit log and of reads (checked under SpecRead,
\* SpecPages and SpecReads).

\* The aggregates that have stored events.
StoredIds(store) == {e.originator_id : e \in store} \ {UnitLogId}

\* Every save that has succeeded was the first save of a new unit.
OnlyCreates == nsaved = Cardinality(StoredIds(stored))

\* The Created event stored for unit id.
CreatedOf(store, id) ==
    CHOOSE e \in StreamRows(store, id) : e.originator_version = 1

\* C5: after N successful creates the unit log holds exactly N entries, at
\* positions 1..N, in creation order.
C5_LogHasOneEntryPerCreate ==
    OnlyCreates =>
        LET log == LogGet(stored, None, None, FALSE, None)
        IN  /\ Len(log) = nsaved
            /\ \A i \in 1..Len(log) : log[i].originator_version = i
            /\ \A i, j \in 1..Len(log) :
                  i < j => log[i].state.unit_id < log[j].state.unit_id

\* The step ends a page fetch of the paging client.
FetchStep == pager'.npages = pager.npages + 1

Min(a, b) == IF a <= b THEN a ELSE b

\* The positions of the entries the unit log holds.
LogPositions(store) ==
    {e.originator_version : e \in StreamRows(store, UnitLogId)}

RECURSIVE Ascending(_)
Ascending(ps) ==
    IF ps = {} THEN <<>>
    ELSE LET lo == CHOOSE p \in ps : \A q \in ps : p <= q
         IN  <<lo>> \o Ascending(ps \ {lo})

\* The k lowest of a set of positions, ascending.
Lowest(ps, k) == SubSeq(Ascending(ps), 1, Min(k, Cardinality(ps)))

Positions(items) == [i \in 1..Len(items) |-> items[i].position]

\* The step ends a single get_units call.
ReadStep == page' # page /\ page'.status \notin {"none", "reading"}

\* The log entries a read with the arguments of p asks for.
InRange(store, p) ==
    {e \in StreamRows(store, UnitLogId) :
        /\ (p.gt = None \/ e.originator_version > p.gt[1])
        /\ (p.lte = None \/ e.originator_version <= p.lte[1])}

\* C7 (SpecReads): get_units(gt, lte, desc, limit) yields, each with its
\* position and the unit it names, entries of the log with
\* gt < position <= lte and no others; in descending order of position
\* unless desc is given as False; all of them when no limit is given, and
\* otherwise the first limit of them in that order.
C7_PageIsTheRangeAsked ==
    [][ReadStep =>
          LET asked == InRange(stored, page')
              items == page'.items
              down == page'.desc = None \/ page'.desc[1]
          IN  /\ page'.status = "ok"
              /\ \A i \in 1..Len(items) :
                     \E e \in asked :
                         /\ e.originator_version = items[i].position
                         /\ items[i].unit.id = e.state.unit_id
                         /\ items[i].unit.version \in 1..Count(stored, e.state.unit_id)
              /\ \A i, j \in 1..Len(items) :
                     i < j => IF down THEN items[i].position > items[j].position
                              ELSE items[i].position < items[j].position
              /\ Len(items) = IF page'.limit = None THEN Cardinality(asked)
                              ELSE Min(page'.limit[1], Cardinality(asked))
              /\ \A e \in asked :
                     (\A i \in 1..Len(items) :
                          items[i].position # e.originator_version)
                        => \A i \in 1..Len(items) :
                               IF down
                               THEN items[i].position > e.originator_version
                               ELSE items[i].position < e.originator_version]_vars

\* A read with lte = 3, limit = 2, no gt and no desc, of a log of four
\* entries, has yielded the entries at 3 and 2, in that order.  Both name the
\* same unit, and the writer's save fell between the two yields: the unit
\* handed over with 2 has one event more than the unit handed over with 3.
C7_Witness ==
    /\ page.gt = None /\ page.lte = Some(3)
    /\ page.desc = None /\ page.limit = Some(2)
    /\ page.status = "ok"
    /\ Cardinality(StreamRows(stored, UnitLogId)) = 4
    /\ Positions(page.items) = <<3, 2>>
    /\ \E e \in StreamRows(stored, UnitLogId) :
           /\ e.originator_version = 2
           /\ page.items[2].unit.id = e.state.unit_id
    /\ page.items[1].unit.id = page.items[2].unit.id
    /\ page.items[2].unit.version = page.items[1].unit.version + 1

\* C8: after N new units have each been saved once, get_all returns N units
\* and the address of every saved unit is among them.
C8_GetAllReturnsEverySavedUnit ==
    OnlyCreates =>
        LET r == GetAll(stored, clock)
        IN  /\ r.status = "ok"
            /\ Len(r.units) = nsaved
            /\ \A id \in StoredIds(stored) :
                  \E i \in 1..Len(r.units) :
                      r.units[i].address = CreatedOf(stored, id).state.address

\* C10: two consecutive get(id) calls with no write in between return units
\* that are equal in every field, created_at included.
C10_ConsecutiveGetsAgree ==
    (Len(reads) = 2 /\ reads[1].id = reads[2].id)
        => reads[1].res = reads[2].res

----------------------------------------------------------------------------
\* Properties of the Lease class and its repository (checked under
\* SpecLease).

\* The step is a lease_repo.save(lease) call.
LeaseSaveStep == lwriter'.nsave = lwriter.nsave + 1

\* C11: when a save of the lease has succeeded, whatever accepted and
\* rejected commands came before it, get(lease.id) rebuilds an instance equal
\* in every field to the one the client holds.
C11_SavedInstanceEqualsReplay ==
    [][(LeaseSaveStep /\ lwriter'.last = "ok")
          => LeaseRepositoryGet(lstored', lwriter'.inst.id, clock')
                 = [status |-> "ok", lease |-> lwriter'.inst]]_vars

\* C12: every stored lease stream can be replayed: get(id) of a lease with
\* stored events rebuilds it, no transition raises during the replay.
C12_StoredLeaseReplays ==
    \A id \in 1..MaxLeases :
        StreamRows(lstored, id) # {}
            => LeaseRepositoryGet(lstored, id, clock).status = "ok"

\* C19: Lease.create with start_date >= end_date, equal dates included,
\* fails: the client has no new lease, no event is pending or stored and the
\* lease log has no new entry.
C19_CreateWithBadDatesFails ==
    [][(/\ call' # call
        /\ call'.op = "Lease.create"
        /\ call'.start_date >= call'.end_date)
          => (~call'.ok /\ lwriter' = lwriter /\ lstored' = lstored)]_vars

\* Lease.create was called with equal dates by a client that holds a lease,
\* and was refused.
C19_Witness ==
    /\ call.op = "Lease.create"
    /\ ~call.ok
    /\ call.start_date = call.end_date
    /\ lwriter.inst # NoLease

\* C20: an update_dates call that fails because the resulting dates have
\* start_date >= end_date leaves start_date, end_date, the version and the
\* pending events of the lease as they were.
C20_RejectedUpdateLeavesDates ==
    [][(call' # call /\ call'.op = "DateUpdated" /\ ~call'.ok)
          => (/\ lwriter'.inst.start_date = lwriter.inst.start_date
              /\ lwriter'.inst.end_date = lwriter.inst.end_date
              /\ lwriter'.inst.version = lwriter.inst.version
              /\ lwriter'.pending = lwriter.pending)]_vars

----------------------------------------------------------------------------
\* Properties of the Unit class and of get, get_all and delete (checked
\* under SpecUnit and SpecOrphans).

\* C13: get(id) of an id that has no stored event returns None.
C13_GetOfUnknownIdIsNone ==
    \A i \in 1..Len(reads) :
        StreamRows(stored, reads[i].id) = {} => reads[i].res.status = "none"

\* C14: when delete(unit) is called for a unit that has stored events,
\* get(unit.id) returns None afterwards.
C14_GetAfterDeleteIsNone ==
    [][(call' # call /\ call'.op = "delete" /\ Count(stored, call'.id) > 0)
          => UnitRepositoryGet(stored', call'.id, clock').status = "none"]_vars

\* The log entries whose unit Repository.get resolves.
Resolvable(store, now) ==
    {e \in StreamRows(store, UnitLogId) :
        RepositoryGet(store, e.state.unit_id, now).status = "ok"}

\* The ids of a list of aggregates, in the order of the list.
IdsOf(aggregates) == [i \in 1..Len(aggregates) |-> aggregates[i].id]

\* The step ends a get_all call.
ListStep ==
    /\ scan'.op = "none"
    /\ scan.op = "get_all" \/ (scan.op = "none" /\ ListAll)

C16_StoredEventsArePermanent ==
    [][\A e \in stored : e \in stored']_vars

\* delete was called for a unit with two stored events, and both are still
\* stored.
C16_Witness ==
    /\ call.op = "delete"
    /\ Count(stored, call.id) = 2

\* The step is a Unit.create call.
CreateStep == nextId' = nextId + 1

\* C17: Unit.create gives a unit at version 1 that is leasable, not leased,
\* with the address and built_in it was given and the amenities it was
\* given, the empty list when none were given.
C17_CreatedUnitHasItsArguments ==
    [][CreateStep =>
          LET u == writer'["w1"].inst
              args == writer'["w1"].pending[1].state
          IN  /\ u.version = 1
              /\ u.is_leasable
              /\ ~u.is_leased
              /\ u.address = args.address
              /\ u.built_in = args.built_in
              /\ u.amenities = IF args.amenities = None THEN <<>>
                               ELSE args.amenities[1]]_vars

\* A unit was created without amenities and with a built_in year.
C17_Witness ==
    /\ writer["w1"].inst.version = 1
    /\ Len(writer["w1"].pending) = 1
    /\ writer["w1"].pending[1].state.amenities = None
    /\ writer["w1"].inst.amenities = <<>>
    /\ writer["w1"].inst.built_in = Some(1990)

\* C18: mark_as_leased on a unit that is not leasable fails, no event is
\* pending or stored for it, and the version and every field of the unit are
\* as before.
C18_LeaseOfUnleasableUnitFails ==
    [][(/\ call' # call
        /\ call'.op = "MarkedAsLeased"
        /\ ~writer["w1"].inst.is_leasable)
          => (~call'.ok /\ writer' = writer /\ stored' = stored)]_vars

\* mark_as_leased was refused for a unit that had been marked unleasable.
C18_Witness ==
    /\ call.op = "MarkedAsLeased"
    /\ ~call.ok
    /\ writer["w1"].inst.version >= 2
    /\ ~writer["w1"].inst.is_leasable
    /\ ~writer["w1"].inst.is_leased

\* C21: update_built_in_year(year) returns and sets built_in = year, with
\* one more event pending and the version raised by one, exactly when
\* 1800 <= year <= current year; any other year fails and leaves the unit and
\* its pending events as they were.
C21_BuiltInYearWithinRange ==
    [][\A y \in Years :
          Call("w1", [topic |-> "BuiltInYearUpdated",
                      args |-> [NoArgs EXCEPT !.built_in = Some(y)]],
               MaxUnitVersion)
          => IF 1800 <= y /\ y <= CurrentYear
             THEN /\ call'.ok
                  /\ writer'["w1"].inst.built_in = Some(y)
                  /\ writer'["w1"].inst.version = writer["w1"].inst.version + 1
                  /\ Len(writer'["w1"].pending) = Len(writer["w1"].pending) + 1
             ELSE /\ ~call'.ok
                  /\ writer'["w1"].inst = writer["w1"].inst
                  /\ writer'["w1"].pending = writer["w1"].pending]_vars

\* update_built_in_year(1800) was accepted for a unit, and a later call with
\* a year out of the range was refused and left 1800.
C21_Witness ==
    /\ call.op = "BuiltInYearUpdated"
    /\ ~call.ok
    /\ writer["w1"].inst.version = 2
    /\ writer["w1"].inst.built_in = Some(1800)

----------------------------------------------------------------------------
\* Properties of the date transcoding (checked under SpecCodec).

\* C22: a date that was encoded and decoded again is the date that was
\* given: decode(encode(d)) = d.
C22_DateRoundTrip ==
    wire.stage = "decoded" => wire.back = [ok |-> TRUE, date |-> wire.date]

\* The 9th of February of the year 999, whose three fields are all padded,
\* has gone through the transcoder.
C22_Witness ==
    /\ wire.stage = "decoded"
    /\ wire.date = [year |-> 999, month |-> 2, day |-> 9]
    /\ wire.data = <<48, 57, 57, 57, 45, 48, 50, 45, 48, 57>>

----------------------------------------------------------------------------
\* Properties of the commands of the three aggregates (checked under
\* SpecCommands).

\* What a command call may do to the version and the pending events: one
\* more of each when it returned, neither changed when it raised.
CountsOneEvent(ok, version, pending, versionAfter, pendingAfter) ==
    IF ok
    THEN versionAfter = version + 1 /\ Len(pendingAfter) = Len(pending) + 1
    ELSE versionAfter = version /\ Len(pendingAfter) = Len(pending)

\* C30: every command of Unit, Tenant and Lease that returns raises the
\* version by one and leaves one more pending event, and every command that
\* raises leaves the version and the number of pending events as they were;
\* the version is the number of events applied.
C30_VersionCountsEvents ==
    [][/\ \A c \in UnitCommands :
             Call("w1", c, MaxUnitVersion)
             => /\ CountsOneEvent(call'.ok, writer["w1"].inst.version,
                                  writer["w1"].pending,
                                  writer'["w1"].inst.version,
                                  writer'["w1"].pending)
                /\ writer'["w1"].inst.version = Len(writer'["w1"].pending)
       /\ \A c \in TenantCommands :
             TenantCommand(c, MaxTenantVersion)
             => /\ CountsOneEvent(call'.ok, twriter.inst.version,
                                  twriter.pending, twriter'.inst.version,
                                  twriter'.pending)
                /\ twriter'.inst.version = Len(twriter'.pending)
       /\ \A c \in LeaseCommands :
             LeaseCommand(c, MaxLeaseVersion)
             => /\ CountsOneEvent(call'.ok, lwriter.inst.version,
                                  lwriter.pending, lwriter'.inst.version,
                                  lwriter'.pending)
                /\ lwriter'.inst.version = Len(lwriter'.pending)]_vars

\* An update_dates call was refused for a lease that has two events applied
\* and pending; it left dates that are not in order.
C30_Witness ==
    /\ call.op = "DateUpdated"
    /\ ~call.ok
    /\ lwriter.inst.version = 2
    /\ Len(lwriter.pending) = 2
    /\ lwriter.inst.start_date >= lwriter.inst.end_date

----------------------------------------------------------------------------
\* Properties of listings and of the unit log.

\* C26 (SpecUnit): get_available_units returns exactly the stored units that
\* are leasable and not leased.
C26_AvailableUnitsAreTheLeasableOnes ==
    LET avail == GetAvailableUnits(stored, clock)
    IN  /\ avail.status = "ok"
        /\ \A id \in StoredIds(stored) :
              LET r == RepositoryGet(stored, id, clock)
              IN  r.status = "ok"
                  => ((r.unit.is_leasable /\ ~r.unit.is_leased)
                      <=> \E i \in 1..Len(avail.units) : avail.units[i].id = id)

\* C27 (SpecRead): the unit log holds as many entries as save calls have
\* returned normally.
C27_OneLogEntryPerSave ==
    Cardinality(StreamRows(stored, UnitLogId)) = nsaved

\* C28 (Spec): the entries of the unit log are at positions 1..N, N the
\* number of saves that returned, whichever writers made them: no position
\* twice, none left out, no entry lost.
C28_LogPositionsAreContiguous ==
    LET log == LogGet(stored, None, None, FALSE, None)
    IN  /\ Len(log) = nsaved
        /\ {log[i].originator_version : i \in 1..Len(log)} = 1..nsaved

\* The writer's pending events continue the stored stream of its unit.
ExpectedVersionCorrect(w) ==
    /\ writer[w].inst # NoUnit
    /\ writer[w].pending # <<>>
    /\ Count(stored, writer[w].inst.id)
           = writer[w].inst.version - Len(writer[w].pending)

\* C29 (SpecTwo): a save whose pending events continue the stored stream of
\* its unit succeeds, whatever another writer has saved or is saving for
\* another unit.
C29_OtherUnitsDoNotContend ==
    [][\A w \in Writers :
          (SaveStep(w) /\ ExpectedVersionCorrect(w))
              => (writer'[w].last = "ok"
                  /\ Count(stored', writer[w].inst.id)
                         = writer[w].inst.version)]_vars

\* Two writers each loaded a different unit, changed it and saved it, and
\* both saves succeeded.
C29_Witness ==
    /\ writer["w1"].inst.id # writer["w2"].inst.id
    /\ \A w \in Writers :
          /\ writer[w].base = 1
          /\ writer[w].inst.version = 2
          /\ writer[w].last = "ok"
          /\ Count(stored, writer[w].inst.id) = 2

----------------------------------------------------------------------------
\* Properties of the GraphQL mutations (checked under SpecApi and SpecSign).

\* The ids of the aggregates a recorder holds.
AggregateIds(store) == {e.originator_id : e \in store} \ {0}

\* The tenants a recorder holds, as Repository.get gives them.
StoredTenants(store, now) ==
    {TenantRepositoryGet(store, id, now).tenant : id \in AggregateIds(store)}

UniqueIdentificationNumbers(store, now) ==
    \A a, b \in StoredTenants(store, now) :
        a.identification_number = b.identification_number => a.id = b.id

\* The step with which the createTenant mutation r with this input returns
\* or raises.
CreateTenantEnded(r, input) ==
    /\ \/ CreateTenantGet(r, input)
       \/ inflight[r].tenant_input = input /\ CreateTenantCreate(r)
    /\ inflight'[r].pc = "idle"

LeaseChecksPass(input) ==
    /\ Stream(stored, input.unit_id.id) # <<>>
    /\ RepositoryGet(stored, input.unit_id.id, clock).unit.is_leasable
    /\ \A t \in SeqToSet(input.tenant_ids) :
           /\ Stream(tstored, t) # <<>>
           /\ TenantRepositoryGet(tstored, t, clock).tenant.is_approved

\* A step of the createLease mutation r.
CreateLeaseStep(r) ==
    \/ \E input \in ApiLeaseInputs : CreateLeaseUnitGet(r, input)
    \/ CreateLeaseTenantGet(r)
    \/ CreateLeaseCreate(r)

\* The step with which the createLease mutation r with this input returns
\* or raises.
CreateLeaseEnded(r, input) ==
    /\ \/ CreateLeaseUnitGet(r, input)
       \/ /\ inflight[r].lease_input = input
          /\ (CreateLeaseTenantGet(r) \/ CreateLeaseCreate(r))
    /\ inflight'[r].pc = "idle"

SignLeaseStep(r) ==
    \/ \E id \in ApiIds : SignLeaseGet(r, id, MaxSignVersion)
    \/ SignLeaseSave(r)
    \/ SignLeaseUnitGet(r, MaxSignVersion)
    \/ SignLeaseUnitSave(r)

\* The step with which the signLease mutation r returns (ok) or raises.
SignLeaseEnded(r, ok) ==
    /\ SignLeaseStep(r)
    /\ inflight'[r].pc = "idle"
    /\ call'.ok = ok

\* C25: after a signLease mutation that returns without error, the stored
\* lease is signed by the tenant with signed_at set, and the unit the lease
\* refers to, when it is stored, is leased.
C25_SignedLeaseMarksUnitLeased ==
    [][\A r \in Resolvers :
          SignLeaseEnded(r, TRUE) =>
              LET lease == LeaseRepositoryGet(lstored', call'.id, clock').lease
                  unit == RepositoryGet(stored', lease.unit_id.id, clock')
              IN  /\ lease.signed_by_tenant
                  /\ lease.signed_at # None
                  /\ Stream(stored', lease.unit_id.id) # <<>>
                        => (unit.status = "ok" /\ unit.unit.is_leased)]_vars

\* A signLease mutation has returned: the lease is stored signed and its
\* unit is stored leased.
C25_Witness ==
    /\ call.op = "signLease"
    /\ call.ok
    /\ LeaseRepositoryGet(lstored, call.id, clock).lease.signed_by_tenant
    /\ \E u \in AggregateIds(stored) :
           /\ LeaseRepositoryGet(lstored, call.id, clock).lease.unit_id.id = u
           /\ RepositoryGet(stored, u, clock).unit.is_leased

----------------------------------------------------------------------------
\* Frame properties of the commands (checked under SpecUnit, SpecCommands).

\* The business fields of a Unit, and the one a command assigns.
UnitFields == {"address", "amenities", "is_leasable", "is_leased", "built_in"}

OwnField(topic) ==
    CASE topic \in {"MarkedAsLeased", "MarkedAsAvailable"} -> "is_leased"
      [] topic \in {"MarkedAsUnleasable", "MarkedAsLeasable"} -> "is_leasable"
      [] topic = "AmenitiesUpdated" -> "amenities"
      [] topic = "AddressUpdated" -> "address"
      [] topic = "BuiltInYearUpdated" -> "built_in"

\* C31: a Unit command, accepted or not, leaves every business field of the
\* unit other than its own as it was.
C31_CommandsChangeOnlyTheirField ==
    [][\A c \in UnitCommands :
          Call("w1", c, MaxUnitVersion) =>
              \A f \in UnitFields \ {OwnField(c.topic)} :
                  writer'["w1"].inst[f] = writer["w1"].inst[f]]_vars

\* mark_as_unleasable has returned on a leased unit that has amenities and
\* a year: the unit is unleasable and still leased.
C31_Witness ==
    /\ call.op = "MarkedAsUnleasable"
    /\ call.ok
    /\ ~writer["w1"].inst.is_leasable
    /\ writer["w1"].inst.is_leased
    /\ writer["w1"].inst.amenities # <<>>
    /\ writer["w1"].inst.built_in # None

\* What update_contact_info(email, phone_number) does to the tenant the
\* client holds, when emailGiven and phoneGiven say which arguments count as
\* given: a field not given is unchanged, a field given is replaced, and
\* the other business fields are unchanged.
ContactUpdateChangesGiven(c, emailGiven, phoneGiven) ==
    LET before == twriter.inst
        after == twriter'.inst
    IN  /\ after.email = IF emailGiven THEN c.args.email[1] ELSE before.email
        /\ after.phone_number = IF phoneGiven THEN c.args.phone_number[1]
                                ELSE before.phone_number
        /\ \A f \in {"identification_number", "first_name", "last_name",
                      "dob", "is_approved"} : after[f] = before[f]

ContactCommands == {c \in TenantCommands : c.topic = "ContactInfoUpdated"}

\* C32 as stated: update_contact_info replaces exactly the contact fields
\* that are given (not None) and changes no other field.
C32_ContactUpdateReplacesGiven ==
    [][\A c \in ContactCommands :
          TenantCommand(c, MaxTenantVersion) =>
              ContactUpdateChangesGiven(c, c.args.email # None,
                                        c.args.phone_number # None)]_vars

\* C32: update_contact_info replaces exactly the contact fields that are
\* given and not the empty string, leaves a field that is not given or is
\* given as the empty string as it was, and changes no other field.
C32_ContactUpdateReplacesNonEmpty ==
    [][\A c \in ContactCommands :
          TenantCommand(c, MaxTenantVersion) =>
              ContactUpdateChangesGiven(c, Truthy(c.args.email),
                                        Truthy(c.args.phone_number))]_vars

\* update_contact_info has returned with both fields given: both are
\* replaced.
C32_Witness ==
    /\ call.op = "ContactInfoUpdated"
    /\ twriter.pending # <<>>
    /\ LET e == twriter.pending[Len(twriter.pending)]
       IN  /\ e.topic = "ContactInfoUpdated"
           /\ e.state.email = Some("e2")
           /\ e.state.phone_number = Some("p2")
    /\ twriter.inst.email = "e2"
    /\ twriter.inst.phone_number = "p2"

----------------------------------------------------------------------------
\* Properties of the tenants of a lease (checked under SpecTenants).

NoDuplicate(l) == \A i, j \in 1..Len(l) : l[i] = l[j] => i = j

\* C33: add_tenant(t) makes t a member, lengthens tenant_ids by 1
\* when t was absent and leaves it when t was present, and never makes a
\* duplicate; remove_tenant(t) makes t absent and leaves tenant_ids when t
\* was absent.
C33_AddAndRemoveTenant ==
    [][\A c \in TenantListCommands :
          LeaseCommand(c, MaxLeaseVersion) =>
              LET before == lwriter.inst.tenant_ids
                  after == lwriter'.inst.tenant_ids
                  t == c.args.tenant_id
              IN  /\ c.topic = "TenantAdded" =>
                        /\ t \in SeqToSet(after)
                        /\ t \notin SeqToSet(before)
                              => Len(after) = Len(before) + 1
                        /\ t \in SeqToSet(before) => after = before
                        /\ NoDuplicate(before) => NoDuplicate(after)
                  /\ c.topic = "TenantRemoved" =>
                        /\ t \notin SeqToSet(after)
                        /\ t \notin SeqToSet(before) => after = before]_vars

\* The Created events of leases, pending on the instance the client holds
\* or stored.
CreatedEvents ==
    {e \in SeqToSet(lwriter.pending) \cup lstored : e.topic = "Created"}

\* C34: the Created event of a lease carries the tenant_ids given to
\* Lease.create, and add_tenant and remove_tenant on the lease, before or
\* after it is saved, leave every Created event as it was.
C34_CreatedEventIsImmutable ==
    [][/\ \A a \in TenantListInputs :
             (LeaseCreate(a, MaxLeases) /\ call'.ok) =>
                 lwriter'.pending[1].state.tenant_ids = a.tenant_ids
       /\ \A c \in TenantListCommands :
             LeaseCommand(c, MaxLeaseVersion) =>
                 CreatedEvents' = CreatedEvents]_vars

----------------------------------------------------------------------------
\* Invariants of a Unit (checked under SpecUnit).

\* C35: the unit a client holds, after Unit.create and any commands, is
\* never both leased and unleasable.
C35_LeasedImpliesLeasable ==
    writer["w1"].inst # NoUnit =>
        (writer["w1"].inst.is_leased => writer["w1"].inst.is_leasable)

\* C36: built_in of the unit a client holds is None or a year from 1800 to
\* the current year, whether Unit.create or update_built_in_year set it.
C36_BuiltInIsNoneOrInRange ==
    writer["w1"].inst # NoUnit =>
        \/ writer["w1"].inst.built_in = None
        \/ /\ MinBuiltInYear <= writer["w1"].inst.built_in[1]
           /\ writer["w1"].inst.built_in[1] <= CurrentYear

----------------------------------------------------------------------------
\* The lists of the repositories (checked under SpecPages).

C38_FailedSignLeaseChangesNothing ==
    [][\A r \in Resolvers :
          SignLeaseEnded(r, FALSE) =>
              /\ inflight[r].saved = {}
              /\ lstored' = lstored
              /\ stored' = stored]_vars

----------------------------------------------------------------------------
\* Concurrent createTenant mutations (checked under SpecRace).

\* The requests that have created a tenant.
Created(r) == requests[r].pc = "done" /\ requests[r].ok

====
